---- MODULE Spec2Model ----
(***************************************************************************)
(* A model of CodeLens' code executor                                      *)
(* (backend/executors/code_executor.py): one execute() call, followed      *)
(* from the caller through language dispatch, temporary files, child       *)
(* processes, the remote Java fallback and the exception handlers to the   *)
(* ExecutionResult it returns (Spec); and of its static analyzer           *)
(* (backend/analyzers/static_analyzer.py): one analyze() call, from the    *)
(* dispatch through the passes of the language's analysis and the pylint   *)
(* run to the bundle it returns (SpecAnalyze).                             *)
(*                                                                         *)
(* Texts (program output, compiler diagnostics, error messages) are        *)
(* run-length encoded: a text is a sequence of runs [k, n], n characters   *)
(* of kind k.  The kinds "vis" (visible characters), "ws" (whitespace)     *)
(* and "bad" (bytes that are not valid UTF-8) stand for arbitrary          *)
(* characters of that class; any other kind is a literal piece of text     *)
(* written out in the source, n = its length.  Slicing, stripping and      *)
(* decoding are computed on this encoding, so the program's real limits    *)
(* (10000 characters, 5 seconds) are used as they are.                     *)
(*                                                                         *)
(* Times are integers, in microseconds.                                    *)
(***************************************************************************)
EXTENDS Integers, Sequences, FiniteSets, TLC

\* ------------------------------------------------------------------ bounds

\* The longest byte stream a child process writes, in runs.
MaxRuns == 2

\* The longest list of issues, improvements or security concerns.
MaxIssues == 10

\* The deepest nesting of the statements of a syntax tree.
MaxDepth == 4

\* The analyze() calls made on one StaticAnalyzer.
MaxCalls == 3

\* The execute() calls in flight at once.
MaxConcurrent == 2

\* The longest source of the text scans, in pieces.
MaxPieces == 5

\* The ticks in sixty seconds, and the last tick of the clock.
Minute == 3
MaxTime == 5

\* RateLimiter(requests_per_minute=30), scaled to the clock.
requests_per_minute == 2

\* AnalysisCache(ttl=3600), scaled to the clock, and the size above which
\* set() removes the expired entries (1000), scaled to the keys.
ttl == 3
cleanup_above == 1

\* ------------------------------------------------- configuration constants

\* CodeExecutor.__init__: self.timeout, in seconds.
timeout == 5

\* CodeExecutor.__init__: self.max_output_length, in characters.
max_output_length == 10000

\* self.timeout on the model's clock.
TimeoutUs == timeout * 1000000

\* ------------------------------------------------------------------- texts

Classes == {"vis", "ws", "bad"}

Run(k, n) == [k |-> k, n |-> n]

\* A piece of text written out in the source.
Lit(s) == Run(s, Len(s))

Empty == << >>

RECURSIVE TextLen(_)
\* len(text)
TextLen(t) == IF t = << >> THEN 0 ELSE Head(t).n + TextLen(Tail(t))

\* a + b, keeping the encoding canonical: adjacent runs of one class merge.
Concat(a, b) ==
    IF a = << >> THEN b
    ELSE IF b = << >> THEN a
    ELSE LET x == a[Len(a)]
             y == b[1]
         IN  IF x.k = y.k /\ x.k \in Classes
                THEN SubSeq(a, 1, Len(a) - 1) \o <<Run(x.k, x.n + y.n)>> \o Tail(b)
                ELSE a \o b

RECURSIVE Decode(_)
\* bytes.decode('utf-8', errors='ignore'): the invalid bytes are dropped.
Decode(b) ==
    IF b = << >> THEN << >>
    ELSE IF Head(b).k = "bad" THEN Decode(Tail(b))
    ELSE Concat(<<Head(b)>>, Decode(Tail(b)))

RECURSIVE Take(_, _)
\* text[:m]
Take(t, m) ==
    IF t = << >> \/ m <= 0 THEN << >>
    ELSE IF Head(t).n <= m THEN <<Head(t)>> \o Take(Tail(t), m - Head(t).n)
    ELSE <<Run(Head(t).k, m)>>

RECURSIVE LStrip(_)
LStrip(t) == IF t # << >> /\ Head(t).k = "ws" THEN LStrip(Tail(t)) ELSE t

RECURSIVE RStrip(_)
RStrip(t) ==
    IF t # << >> /\ t[Len(t)].k = "ws" THEN RStrip(SubSeq(t, 1, Len(t) - 1)) ELSE t

\* text.strip()
Strip(t) == RStrip(LStrip(t))

\* The run p covers the run q from its left end (q is a prefix of p, as text).
CoversL(p, q) == p.k = q.k /\ (IF q.k \in Classes THEN p.n >= q.n ELSE p.n = q.n)

\* s in t: s occurs in t as a contiguous piece of text.
Contains(t, s) ==
    \/ s = << >>
    \/ /\ Len(s) = 1
       /\ \E i \in 1..Len(t) : CoversL(t[i], s[1])
    \/ /\ Len(s) >= 2
       /\ \E i \in 1..(Len(t) - Len(s) + 1) :
            /\ CoversL(t[i], s[1])
            /\ CoversL(t[i + Len(s) - 1], s[Len(s)])
            /\ \A j \in 2..(Len(s) - 1) : t[i + j - 1] = s[j]

\* The lengths of the runs a child process writes: one character, or as many
\* as the output cap.
RunLens == {1, max_output_length}

\* The canonical byte streams of exactly r runs.
RECURSIVE StreamsOf(_)
StreamsOf(r) ==
    IF r = 0 THEN {<< >>}
    ELSE {Append(s, Run(k, n)) : s \in StreamsOf(r - 1), k \in Classes, n \in RunLens}

Canonical(s) == \A i \in 1..(Len(s) - 1) : s[i].k # s[i + 1].k

\* What a child process can write to one of its pipes.
ByteStreams == UNION {{s \in StreamsOf(r) : Canonical(s)} : r \in 0..MaxRuns}

\* What the remote service can put in a JSON string: text, already decoded.
JsonTexts == {s \in ByteStreams : \A i \in 1..Len(s) : s[i].k # "bad"}

\* The (stdout, stderr) a child process ends with: one stream is arbitrary,
\* the other is empty or a single visible character.
Plain == {<< >>, <<Run("vis", 1)>>}
StreamPairs == (ByteStreams \X Plain) \cup (Plain \X ByteStreams)

\* ------------------------------------------------------------------ inputs

\* Source text, as a sequence of lexical pieces: the words "public" and
\* "class", any other word ("id"), a whitespace character (" ") and a lone
\* surrogate code point ("surrogate"), which UTF-8 cannot encode.
Codes ==
    { <<"id">>,
      <<"public", " ", "class", " ", "id">>,
      <<"public", " ", "class", "id">>,
      <<"id", "public", " ", " ", "class", " ", "class", "surrogate">>,
      <<"surrogate">> }

\* The language strings a caller passes; "go" stands for every other string.
Languages == {"python", "javascript", "typescript", "java", "cpp", "c", "go"}

\* platform.system()
Platforms == {"Linux", "Windows"}

\* Exit statuses of a child process.
ReturnCodes == {0, 1}

\* time.time() - start_time of a call whose children exit at once, and the
\* time a timed-out call spends beyond the timeout.
Elapsed == {1499, 2500}
Overhead == {200, 30000}

\* The str(e) of the exceptions of the model.
StrExc(e) ==
    CASE e = "UnicodeEncodeError" ->
           <<Lit("'utf-8' codec can't encode character '\\ud800': surrogates not allowed")>>
      [] e = "FileNotFoundError" -> <<Lit("[Errno 2] No such file or directory")>>
      [] e = "OSError" -> <<Lit("[Errno 11] Resource temporarily unavailable")>>
      [] e = "ConnectError" -> <<Lit("All connection attempts failed")>>
      [] OTHER -> <<Lit(e)>>

\* f.write(code) on a file opened with encoding='utf-8'.
Encodable(c) == \A i \in 1..Len(c) : c[i] # "surrogate"

\* \w and \s on the pieces of a source text.
IsWord(tok) == tok \in {"public", "class", "id"}
IsSpace(tok) == tok = " "

RECURSIVE SkipSpace(_, _)
\* The first position from i on that holds no whitespace (Len(c) + 1 if none).
SkipSpace(c, i) == IF i <= Len(c) /\ IsSpace(c[i]) THEN SkipSpace(c, i + 1) ELSE i

RECURSIVE WordEnd(_, _)
\* The last position of the word pieces that start at i.
WordEnd(c, i) == IF i + 1 <= Len(c) /\ IsWord(c[i + 1]) THEN WordEnd(c, i + 1) ELSE i

\* Where the name of r'public\s+class\s+(\w+)' starts when the pattern
\* matches at i, and 0 when it does not.
MatchAt(c, i) ==
    IF c[i] # "public" THEN 0
    ELSE LET j == SkipSpace(c, i + 1)
         IN  IF j = i + 1 \/ j > Len(c) \/ c[j] # "class" THEN 0
             ELSE LET k == SkipSpace(c, j + 1)
                  IN  IF k = j + 1 \/ k > Len(c) \/ ~IsWord(c[k]) THEN 0 ELSE k

\* re.search(r'public\s+class\s+(\w+)', code): the positions where it matches.
Matches(c) == {i \in 1..Len(c) : MatchAt(c, i) # 0}

\* class_match.group(1) of the leftmost match.
ClassName(c) ==
    LET i == CHOOSE m \in Matches(c) : \A o \in Matches(c) : m <= o
        k == MatchAt(c, i)
    IN  SubSeq(c, k, WordEnd(c, k))

\* ------------------------------------------------------------------- state

VARIABLES
    code,       \* the call's source text
    language,   \* the call's language string
    platform,   \* platform.system() of the host
    pc,         \* where the call is
    disk,       \* the temporary files and directories that exist
    temp_file,  \* temp_file (_execute_python/_javascript), source_file (_execute_cpp), java_file
    exe_file,   \* exe_file (_execute_cpp)
    temp_dir,   \* temp_dir (_execute_java)
    procs,      \* the child processes the call has tried to start, in order
    remote,     \* the answers to the POSTs sent to the remote execution service
    result,     \* what execute() or analyze() returned (or raised)
    results,    \* results (_analyze_python), as it is when pylint is run
    lint,       \* how the pylint run of the call went
    history,    \* the analyze() calls that have returned
    now,        \* time.time(), in ticks
    requests,   \* RateLimiter.requests: the kept request times of each client
    cache,      \* AnalysisCache.cache: the entry of each key
    trace       \* what an observer of the service has noted of the calls made

vars == <<code, language, platform, pc, disk, temp_file, exe_file, temp_dir,
          procs, remote, result, results, lint, history, now, requests, cache, trace>>

\* The variables only the executor writes, and those only the analyzer writes.
executor_vars == <<platform, temp_file, exe_file, temp_dir, procs, remote>>
analyzer_vars == <<results, lint, history>>

\* The variables of the rate limiter, the cache and the endpoint.
service_vars == <<now, requests, cache, trace>>

Path(d, stem, ext) == [dir |-> d, stem |-> stem, ext |-> ext]
None == Path("None", << >>, "")

\* tempfile.NamedTemporaryFile(suffix=...), tempfile.mkdtemp()
TempFile(suffix) == Path("tmp", <<"tmp">>, suffix)
TempDir == Path("tmpdir", << >>, "")

\* shutil.rmtree(temp_dir): what is left of the files d.
RmTree(d) == {f \in d : f.dir # "tmpdir"}

NoResult == [kind |-> "none"]
Raised(e) == [kind |-> "raised", exc |-> e]
Returned(r) == [kind |-> "returned", value |-> r]

\* The dict every path of execute() builds.
Result(o, e, t, s) == [output |-> o, error |-> e, execution_time |-> t, success |-> s]

\* A child process the call tried to start: its command; whether starting
\* it failed ("notfound" for FileNotFoundError, "failed" for any other
\* error), or it is running, has exited or was killed; whether the timeout
\* passed while it ran (late); and, once it has exited, its status and what
\* it wrote.
Proc(cmd, st, late, rc, out, err) ==
    [cmd |-> cmd, st |-> st, late |-> late, rc |-> rc, out |-> out, err |-> err]
Started(cmd) == Proc(cmd, "running", FALSE, -1, << >>, << >>)
Exited(cmd, rc, out, err) == Proc(cmd, "exited", FALSE, rc, out, err)
NotStarted(cmd, e) ==
    Proc(cmd, IF e = "FileNotFoundError" THEN "notfound" ELSE "failed", FALSE, -1, << >>, << >>)

\* subprocess.run(..., timeout=self.timeout) kills the child itself when the
\* timeout passes, before it raises TimeoutExpired.
Killed(cmd) == Proc(cmd, "killed", TRUE, -1, << >>, << >>)

\* The timeout passes while the child started last is still running.
LateLast(ps) == [ps EXCEPT ![Len(ps)].late = TRUE]

\* process.kill() on the child started last.
KillLast(ps) == [ps EXCEPT ![Len(ps)].st = "killed"]

\* The child started last exits.
ExitLast(ps, rc, out, err) == [ps EXCEPT ![Len(ps)] = Exited(@.cmd, rc, out, err)]

\* round(seconds, 3): to the nearest millisecond, a tie to the even one.
Round3(us) ==
    LET q == us \div 1000
        r == us % 1000
    IN  IF r < 500 THEN q * 1000
        ELSE IF r > 500 THEN (q + 1) * 1000
        ELSE IF q % 2 = 0 THEN q * 1000 ELSE (q + 1) * 1000

\* f'Execution timeout ({self.timeout}s exceeded)'
TimeoutMsg == <<Lit("Execution timeout ("), Lit(ToString(timeout)), Lit("s exceeded)")>>

\* f'Execution error: {str(e)}'
ExecErrorMsg(e) == <<Lit("Execution error:"), Run("ws", 1)>> \o StrExc(e)

\* A compile-error message that leaves the diagnostics out.
CompileErrorMsgBare(stderr) == <<Lit("Compilation error")>>

\* f'Compilation error:\n{stderr}'
CompileErrorMsg(stderr) == Concat(<<Lit("Compilation error:"), Run("ws", 1)>>, stderr)

Init ==
    /\ code = << >>
    /\ language = ""
    /\ platform \in Platforms
    /\ pc = "idle"
    /\ disk = {}
    /\ temp_file = None
    /\ exe_file = None
    /\ temp_dir = None
    /\ procs = << >>
    /\ remote = << >>
    /\ result = NoResult
    /\ results = NoResult
    /\ lint = "none"
    /\ history = [calls |-> 0, first |-> NoResult, others |-> 0]
    /\ now = 0
    /\ requests = << >>
    /\ cache = << >>
    /\ trace = NoResult

\* routes/api.py: the analyze endpoint awaits code_executor.execute(code, language).
Call ==
    /\ pc = "idle"
    /\ code' \in Codes
    /\ language' \in Languages
    /\ pc' = "execute"
    /\ UNCHANGED analyzer_vars
    /\ UNCHANGED <<platform, disk, temp_file, exe_file, temp_dir, procs, remote, result>>
    /\ UNCHANGED service_vars

\* ------------------------------------------------------------ exceptions

\* `except OSError` in the place of `except Exception`: UnicodeEncodeError is
\* a ValueError and is not caught.
IsOSErrorOnly(e) == e \in {"FileNotFoundError", "OSError", "ConnectError"}

\* `except Exception`: every exception of the model is a subclass of Exception.
IsException(e) ==
    e \in {"UnicodeEncodeError", "FileNotFoundError", "OSError", "ConnectError",
           "MemoryError"}

\* execute(), lines 228-235: what the call ends with when the language's
\* executor raises e: the generic error result if `except Exception` catches
\* it, and the exception itself otherwise.
ExecuteCatch(e) ==
    IF IsException(e) THEN Returned(Result(Empty, StrExc(e), 0, FALSE)) ELSE Raised(e)

\* The last `except Exception` clause of _execute_python, _execute_javascript,
\* _execute_java and _execute_cpp: the generic result, after el microseconds.
GenericCatch(e, el) ==
    IF IsException(e)
        THEN Returned(Result(Empty, ExecErrorMsg(e), el, FALSE))
        ELSE ExecuteCatch(e)

\* os.path.exists(f) guards every os.unlink(f): the files of fs that are
\* named (not None) are removed from d.
Unlink(d, fs) == d \ (fs \ {None})

\* ---------------------------------------------------------------- execute

\* A dispatch whose else branch runs the Python executor.
FamilyDefaultPython(l) ==
    CASE l \in {"javascript", "typescript"} -> "javascript"
      [] l = "java" -> "java"
      [] l \in {"cpp", "c"} -> "cpp"
      [] OTHER -> "python"

\* execute(), lines 213-221: which executor a language string selects.
Family(l) ==
    CASE l = "python" -> "python"
      [] l \in {"javascript", "typescript"} -> "javascript"
      [] l = "java" -> "java"
      [] l \in {"cpp", "c"} -> "cpp"
      [] OTHER -> "unsupported"

\* f"Code execution not supported for {language}"
UnsupportedMsg(l) == <<Lit("Code execution not supported for "), Lit(l)>>

\* execute(): the dispatch on the language string.
Execute ==
    /\ pc = "execute"
    /\ IF Family(language) = "unsupported"
          THEN /\ result' = Returned(Result(Empty, UnsupportedMsg(language), 0, FALSE))
               /\ pc' = "done"
          ELSE /\ result' = result
               /\ pc' = Family(language)
    /\ UNCHANGED analyzer_vars
    /\ UNCHANGED <<code, language, platform, disk, temp_file, exe_file, temp_dir,
                   procs, remote>>
    /\ UNCHANGED service_vars

\* ------------------------------------------- _execute_python, _javascript

Interp == {"python", "javascript"}

Suffix(fam) ==
    CASE fam = "python" -> ".py" [] fam = "javascript" -> ".js"
      [] fam = "cpp" -> ".cpp" [] OTHER -> ".java"

\* sys.executable and 'node'
Interpreter(fam) == IF fam = "python" THEN "python" ELSE "node"

\* What starting a child process can do: start it, or raise.
SpawnOutcomes == {"ok", "FileNotFoundError", "OSError"}

\* The handlers of _execute_python (lines 321-333) and _execute_javascript
\* (lines 413-434) for the exception e, el microseconds into the call.
InterpCatch(fam, e, el) ==
    IF fam = "javascript" /\ e = "FileNotFoundError"
        THEN Returned(Result(Empty,
                 <<Lit("Node.js not found. Please install Node.js to execute JavaScript code.")>>,
                 0, FALSE))
        ELSE GenericCatch(e, el)

\* The dict _run_python_subprocess and _run_node_subprocess return when the
\* child exits in time.
ThreadDone(out, err, rc) ==
    [output |-> Take(Decode(out), max_output_length),
     error |-> Take(Decode(err), max_output_length),
     returncode |-> rc]

\* The dict the _run_*_subprocess functions return from an except clause.
ThreadFailed(msg) == [output |-> Empty, error |-> msg, returncode |-> 1]

\* _run_python_subprocess has no FileNotFoundError clause; _run_node_subprocess has.
ThreadNotFound(fam) ==
    IF fam = "javascript"
        THEN ThreadFailed(<<Lit("Node.js not found. Please install Node.js.")>>)
        ELSE ThreadFailed(ExecErrorMsg("FileNotFoundError"))

\* The result the thread-pool branch builds from the dict d, el microseconds
\* into the call.
FromThread(d, el) ==
    Result(IF d.output # Empty THEN Strip(d.output) ELSE Empty,
           IF d.error # Empty THEN Strip(d.error) ELSE Empty,
           Round3(el),
           d.returncode = 0 /\ d.error = Empty)

\* The result the asyncio branch of _execute_python and _execute_javascript
\* builds when the child exits in time.
FromInterp(out, err, rc, el) ==
    LET output == Take(Decode(out), max_output_length)
        error == Take(Decode(err), max_output_length)
    IN  Result(IF output # Empty THEN Strip(output) ELSE Empty,
               IF error # Empty THEN Strip(error) ELSE Empty,
               Round3(el),
               rc = 0 /\ error = Empty)

\* A timeout clause that reports the time of a call that never ran.
TimeoutResultNoTime == Result(Empty, TimeoutMsg, 0, FALSE)

\* The result of every asyncio.TimeoutError clause.
TimeoutResult == Result(Empty, TimeoutMsg, TimeoutUs, FALSE)

\* tempfile.NamedTemporaryFile(..., delete=False); f.write(code); temp_file = f.name.
\* The file exists as soon as it is opened; temp_file is set after the write.
InterpWrite ==
    /\ pc \in Interp
    /\ disk' = disk \cup {TempFile(Suffix(pc))}
    /\ IF Encodable(code)
          THEN /\ temp_file' = TempFile(Suffix(pc))
               /\ pc' = IF platform = "Windows" THEN "interp_thread" ELSE "interp_spawn"
               /\ result' = result
          ELSE /\ temp_file' = temp_file
               /\ pc' = "done"
               /\ \E el \in Elapsed :
                    result' = InterpCatch(Family(language), "UnicodeEncodeError", el)
    /\ UNCHANGED analyzer_vars
    /\ UNCHANGED <<code, language, platform, exe_file, temp_dir, procs, remote>>
    /\ UNCHANGED service_vars

\* The Windows branch: loop.run_in_executor(None, self._run_*_subprocess, ...),
\* then the clean-up and the result.
InterpThread ==
    /\ pc = "interp_thread"
    /\ LET fam == Family(language)
           cmd == Interpreter(fam)
       IN  \/ \E sp \in StreamPairs, rc \in ReturnCodes, el \in Elapsed :
                /\ procs' = Append(procs, Exited(cmd, rc, sp[1], sp[2]))
                /\ result' = Returned(FromThread(ThreadDone(sp[1], sp[2], rc), el))
           \/ \E ov \in Overhead :
                /\ procs' = Append(procs, Killed(cmd))
                /\ result' = Returned(FromThread(ThreadFailed(TimeoutMsg), TimeoutUs + ov))
           \/ \E el \in Elapsed :
                /\ procs' = Append(procs, NotStarted(cmd, "FileNotFoundError"))
                /\ result' = Returned(FromThread(ThreadNotFound(fam), el))
           \/ \E el \in Elapsed :
                /\ procs' = Append(procs, NotStarted(cmd, "OSError"))
                /\ result' = Returned(FromThread(ThreadFailed(ExecErrorMsg("OSError")), el))
    /\ disk' = Unlink(disk, {temp_file})
    /\ pc' = "done"
    /\ UNCHANGED analyzer_vars
    /\ UNCHANGED <<code, language, platform, temp_file, exe_file, temp_dir, remote>>
    /\ UNCHANGED service_vars

\* asyncio.create_subprocess_exec(interpreter, temp_file, ...)
InterpSpawn ==
    /\ pc = "interp_spawn"
    /\ \E o \in SpawnOutcomes :
         IF o = "ok"
            THEN /\ procs' = Append(procs, Started(Interpreter(Family(language))))
                 /\ pc' = "interp_wait"
                 /\ UNCHANGED <<disk, result>>
            ELSE /\ procs' = Append(procs, NotStarted(Interpreter(Family(language)), o))
                 /\ pc' = "done"
                 /\ disk' = Unlink(disk, {temp_file})
                 /\ \E el \in Elapsed : result' = InterpCatch(Family(language), o, el)
    /\ UNCHANGED analyzer_vars
    /\ UNCHANGED <<code, language, platform, temp_file, exe_file, temp_dir, remote>>
    /\ UNCHANGED service_vars

\* asyncio.wait_for(process.communicate(), timeout=self.timeout) returns.
InterpExit ==
    /\ pc = "interp_wait"
    /\ \E sp \in StreamPairs, rc \in ReturnCodes, el \in Elapsed :
         /\ result' = Returned(FromInterp(sp[1], sp[2], rc, el))
         /\ procs' = ExitLast(procs, rc, sp[1], sp[2])
    /\ disk' = Unlink(disk, {temp_file})
    /\ pc' = "done"
    /\ UNCHANGED analyzer_vars
    /\ UNCHANGED <<code, language, platform, temp_file, exe_file, temp_dir, remote>>
    /\ UNCHANGED service_vars

\* asyncio.wait_for raises asyncio.TimeoutError: kill, clean up, report.
InterpTimeout ==
    /\ pc = "interp_wait"
    /\ procs' = KillLast(LateLast(procs))
    /\ disk' = Unlink(disk, {temp_file})
    /\ result' = Returned(TimeoutResult)
    /\ pc' = "done"
    /\ UNCHANGED analyzer_vars
    /\ UNCHANGED <<code, language, platform, temp_file, exe_file, temp_dir, remote>>
    /\ UNCHANGED service_vars

\* ------------------------------------------------------- _execute_java

JavaFile(name) == Path("tmpdir", name, ".java")
ClassFile(name) == Path("tmpdir", name, ".class")

\* The result of the compile-error return of the asyncio branches.
CompileFailed(stderr, el) == Result(Empty, CompileErrorMsg(Decode(stderr)), el, FALSE)

\* The result the asyncio branch of _execute_java and _execute_cpp builds
\* when the program exits in time; `not stderr` tests the raw bytes.
FromCompiled(out, err, rc, el) ==
    Result(Strip(Take(Decode(out), max_output_length)),
           Strip(Take(Decode(err), max_output_length)),
           Round3(el),
           rc = 0 /\ err = Empty)

\* What follows when starting a child raises e in _execute_java: the remote
\* fallback for FileNotFoundError, the generic result for anything else.
JavaCatch(e, el) == IF e = "FileNotFoundError" THEN NoResult ELSE GenericCatch(e, el)

\* _execute_java with tempfile.mkdtemp() moved before the class-name search:
\* the early return is outside the try/finally and leaves the directory.
JavaStartDirFirst ==
    /\ pc = "java"
    /\ temp_dir' = TempDir
    /\ IF Matches(code) = {}
          THEN /\ result' = Returned(Result(Empty,
                                <<Lit("No public class found in Java code")>>, 0, FALSE))
               /\ pc' = "done"
               /\ disk' = disk \cup {TempDir}
               /\ UNCHANGED temp_file
          ELSE /\ temp_file' = JavaFile(ClassName(code))
               /\ IF Encodable(code)
                     THEN /\ disk' = disk \cup {TempDir, JavaFile(ClassName(code))}
                          /\ pc' = IF platform = "Windows" THEN "java_thread"
                                                            ELSE "java_compile_spawn"
                          /\ result' = result
                     ELSE /\ disk' = RmTree(disk \cup {TempDir, JavaFile(ClassName(code))})
                          /\ pc' = "done"
                          /\ \E el \in Elapsed :
                               result' = GenericCatch("UnicodeEncodeError", el)
    /\ UNCHANGED analyzer_vars
    /\ UNCHANGED <<code, language, platform, exe_file, procs, remote>>
    /\ UNCHANGED service_vars

\* The class-name search, tempfile.mkdtemp() and the write of <class>.java.
JavaStart ==
    /\ pc = "java"
    /\ IF Matches(code) = {}
          THEN /\ result' = Returned(Result(Empty,
                                <<Lit("No public class found in Java code")>>, 0, FALSE))
               /\ pc' = "done"
               /\ UNCHANGED <<disk, temp_file, temp_dir>>
          ELSE /\ temp_dir' = TempDir
               /\ temp_file' = JavaFile(ClassName(code))
               /\ IF Encodable(code)
                     THEN /\ disk' = disk \cup {TempDir, JavaFile(ClassName(code))}
                          /\ pc' = IF platform = "Windows" THEN "java_thread"
                                                            ELSE "java_compile_spawn"
                          /\ result' = result
                     ELSE /\ disk' = RmTree(disk \cup {TempDir, JavaFile(ClassName(code))})
                          /\ pc' = "done"
                          /\ \E el \in Elapsed :
                               result' = GenericCatch("UnicodeEncodeError", el)
    /\ UNCHANGED analyzer_vars
    /\ UNCHANGED <<code, language, platform, exe_file, procs, remote>>
    /\ UNCHANGED service_vars

\* The Windows branch: run_in_executor(None, self._run_java_subprocess, ...),
\* the result, and the finally clause.  _run_java_subprocess catches
\* FileNotFoundError itself.
JavaThread ==
    /\ pc = "java_thread"
    /\ LET notfound == ThreadFailed(<<Lit("Java compiler not found. Please install JDK.")>>)
       IN  \/ \E el \in Elapsed :
                /\ procs' = Append(procs, NotStarted("javac", "FileNotFoundError"))
                /\ result' = Returned(FromThread(notfound, el))
           \/ \E ov \in Overhead :
                /\ procs' = Append(procs, Killed("javac"))
                /\ result' = Returned(FromThread(ThreadFailed(TimeoutMsg), TimeoutUs + ov))
           \/ \E err \in ByteStreams, el \in Elapsed :
                /\ procs' = Append(procs, Exited("javac", 1, << >>, err))
                /\ result' = Returned(FromThread(
                                 ThreadFailed(CompileErrorMsg(Decode(err))), el))
           \/ \E el \in Elapsed :
                /\ procs' = procs \o <<Exited("javac", 0, << >>, << >>),
                                       NotStarted("java", "FileNotFoundError")>>
                /\ result' = Returned(FromThread(notfound, el))
           \/ \E ov \in Overhead :
                /\ procs' = procs \o <<Exited("javac", 0, << >>, << >>), Killed("java")>>
                /\ result' = Returned(FromThread(ThreadFailed(TimeoutMsg), TimeoutUs + ov))
           \/ \E sp \in StreamPairs, rc \in ReturnCodes, el \in Elapsed :
                /\ procs' = procs \o <<Exited("javac", 0, << >>, << >>), Exited("java", rc, sp[1], sp[2])>>
                /\ result' = Returned(FromThread(ThreadDone(sp[1], sp[2], rc), el))
    /\ disk' = RmTree(disk)
    /\ pc' = "done"
    /\ UNCHANGED analyzer_vars
    /\ UNCHANGED <<code, language, platform, temp_file, exe_file, temp_dir, remote>>
    /\ UNCHANGED service_vars

\* asyncio.create_subprocess_exec('javac', java_file, ...)
JavaCompileSpawn ==
    /\ pc = "java_compile_spawn"
    /\ \E o \in SpawnOutcomes :
         IF o = "ok"
            THEN /\ procs' = Append(procs, Started("javac"))
                 /\ pc' = "java_compile_wait"
                 /\ UNCHANGED <<disk, result>>
            ELSE /\ procs' = Append(procs, NotStarted("javac", o))
                 /\ disk' = RmTree(disk)
                 /\ \E el \in Elapsed : result' = JavaCatch(o, el)
                 /\ pc' = IF o = "FileNotFoundError" THEN "java_online" ELSE "done"
    /\ UNCHANGED analyzer_vars
    /\ UNCHANGED <<code, language, platform, temp_file, exe_file, temp_dir, remote>>
    /\ UNCHANGED service_vars

\* compile_process.communicate() returns (it is awaited without a timeout).
JavaCompileExit ==
    /\ pc = "java_compile_wait"
    /\ \/ /\ pc' = "java_run_spawn"
          /\ procs' = ExitLast(procs, 0, << >>, << >>)
          /\ disk' = disk \cup {ClassFile(ClassName(code))}
          /\ result' = result
       \/ /\ pc' = "done"
          /\ disk' = RmTree(disk)
          /\ \E err \in ByteStreams, el \in Elapsed :
               /\ procs' = ExitLast(procs, 1, << >>, err)
               /\ result' = Returned(CompileFailed(err, el))
    /\ UNCHANGED analyzer_vars
    /\ UNCHANGED <<code, language, platform, temp_file, exe_file, temp_dir, remote>>
    /\ UNCHANGED service_vars

\* asyncio.create_subprocess_exec('java', class_name, ...)
JavaRunSpawn ==
    /\ pc = "java_run_spawn"
    /\ \E o \in SpawnOutcomes :
         IF o = "ok"
            THEN /\ procs' = Append(procs, Started("java"))
                 /\ pc' = "java_run_wait"
                 /\ UNCHANGED <<disk, result>>
            ELSE /\ procs' = Append(procs, NotStarted("java", o))
                 /\ disk' = RmTree(disk)
                 /\ \E el \in Elapsed : result' = JavaCatch(o, el)
                 /\ pc' = IF o = "FileNotFoundError" THEN "java_online" ELSE "done"
    /\ UNCHANGED analyzer_vars
    /\ UNCHANGED <<code, language, platform, temp_file, exe_file, temp_dir, remote>>
    /\ UNCHANGED service_vars

\* asyncio.wait_for(run_process.communicate(), timeout=self.timeout) returns.
JavaRunExit ==
    /\ pc = "java_run_wait"
    /\ \E sp \in StreamPairs, rc \in ReturnCodes, el \in Elapsed :
         /\ result' = Returned(FromCompiled(sp[1], sp[2], rc, el))
         /\ procs' = ExitLast(procs, rc, sp[1], sp[2])
    /\ disk' = RmTree(disk)
    /\ pc' = "done"
    /\ UNCHANGED analyzer_vars
    /\ UNCHANGED <<code, language, platform, temp_file, exe_file, temp_dir, remote>>
    /\ UNCHANGED service_vars

\* asyncio.TimeoutError while the program runs.
JavaRunTimeout ==
    /\ pc = "java_run_wait"
    /\ procs' = KillLast(LateLast(procs))
    /\ disk' = RmTree(disk)
    /\ result' = Returned(TimeoutResult)
    /\ pc' = "done"
    /\ UNCHANGED analyzer_vars
    /\ UNCHANGED <<code, language, platform, temp_file, exe_file, temp_dir, remote>>
    /\ UNCHANGED service_vars

\* What the remote service can answer with status 200: the "run" object of
\* the body, or a body without one (run_data = {}, and the defaults apply).
RemoteRuns ==
    {[output |-> sp[1], stderr |-> sp[2], code |-> rc] :
        sp \in StreamPairs \cap (JsonTexts \X JsonTexts), rc \in ReturnCodes}
    \cup {[output |-> Empty, stderr |-> Empty, code |-> 1]}


\* The result _execute_java_online builds from a 200 answer.
FromRemote(run, el) ==
    Result(Strip(run.output), Strip(run.stderr), Round3(el), run.code = 0)

\* An answer of the remote service: no answer (the POST raised), or a status
\* and, with status 200, the "run" object.
NoRun == [output |-> Empty, stderr |-> Empty, code |-> 1]
Answer(status, run) == [status |-> status, run |-> run]

\* _execute_java_online: the POST to the remote execution service.
JavaOnline ==
    /\ pc = "java_online"
    /\ \/ \E el \in Elapsed :
            /\ remote' = Append(remote, Answer(0, NoRun))
            /\ result' = Returned(Result(Empty,
                             <<Lit("Java execution unavailable:"), Run("ws", 1)>>
                                 \o StrExc("ConnectError"), el, FALSE))
       \/ \E el \in Elapsed :
            /\ remote' = Append(remote, Answer(503, NoRun))
            /\ result' = Returned(Result(Empty,
                             <<Lit("Online Java compiler unavailable. Please try again.")>>,
                             el, FALSE))
       \/ \E run \in RemoteRuns, el \in Elapsed :
            /\ remote' = Append(remote, Answer(200, run))
            /\ result' = Returned(FromRemote(run, el))
    /\ pc' = "done"
    /\ UNCHANGED analyzer_vars
    /\ UNCHANGED <<code, language, platform, disk, temp_file, exe_file, temp_dir, procs>>
    /\ UNCHANGED service_vars

\* -------------------------------------------------------- _execute_cpp

\* source_file.replace('.cpp', '.exe')
ExeOf(f) == Path(f.dir, f.stem, ".exe")

\* The `except FileNotFoundError` clause of _execute_cpp, and the generic one.
CppCatch(e, el) ==
    IF e = "FileNotFoundError"
        THEN Returned(Result(Empty,
                 <<Lit("C++ compiler not found. Please install g++ to execute C++ code.")>>,
                 0, FALSE))
        ELSE GenericCatch(e, el)

\* tempfile.NamedTemporaryFile(suffix='.cpp', delete=False); f.write(code);
\* source_file = f.name; exe_file = source_file.replace('.cpp', '.exe').
CppWrite ==
    /\ pc = "cpp"
    /\ disk' = disk \cup {TempFile(".cpp")}
    /\ IF Encodable(code)
          THEN /\ temp_file' = TempFile(".cpp")
               /\ exe_file' = ExeOf(TempFile(".cpp"))
               /\ pc' = IF platform = "Windows" THEN "cpp_thread" ELSE "cpp_compile_spawn"
               /\ result' = result
          ELSE /\ UNCHANGED <<temp_file, exe_file>>
               /\ pc' = "done"
               /\ \E el \in Elapsed : result' = CppCatch("UnicodeEncodeError", el)
    /\ UNCHANGED analyzer_vars
    /\ UNCHANGED <<code, language, platform, temp_dir, procs, remote>>
    /\ UNCHANGED service_vars

\* The Windows branch: run_in_executor(None, self._run_cpp_subprocess, ...),
\* the clean-up and the result.  g++ writes exe_file when it succeeds.
CppThread ==
    /\ pc = "cpp_thread"
    /\ LET notfound == ThreadFailed(<<Lit("C++ compiler not found. Please install g++.")>>)
       IN  \/ \E el \in Elapsed :
                /\ procs' = Append(procs, NotStarted("g++", "FileNotFoundError"))
                /\ result' = Returned(FromThread(notfound, el))
           \/ \E ov \in Overhead :
                /\ procs' = Append(procs, Killed("g++"))
                /\ result' = Returned(FromThread(ThreadFailed(TimeoutMsg), TimeoutUs + ov))
           \/ \E err \in ByteStreams, el \in Elapsed :
                /\ procs' = Append(procs, Exited("g++", 1, << >>, err))
                /\ result' = Returned(FromThread(
                                 ThreadFailed(CompileErrorMsg(Decode(err))), el))
           \/ \E el \in Elapsed :
                /\ procs' = procs \o <<Exited("g++", 0, << >>, << >>),
                                       NotStarted("exe", "OSError")>>
                /\ result' = Returned(FromThread(ThreadFailed(ExecErrorMsg("OSError")), el))
           \/ \E ov \in Overhead :
                /\ procs' = procs \o <<Exited("g++", 0, << >>, << >>), Killed("exe")>>
                /\ result' = Returned(FromThread(ThreadFailed(TimeoutMsg), TimeoutUs + ov))
           \/ \E sp \in StreamPairs, rc \in ReturnCodes, el \in Elapsed :
                /\ procs' = procs \o <<Exited("g++", 0, << >>, << >>), Exited("exe", rc, sp[1], sp[2])>>
                /\ result' = Returned(FromThread(ThreadDone(sp[1], sp[2], rc), el))
    /\ disk' = Unlink(disk, {temp_file, exe_file})
    /\ pc' = "done"
    /\ UNCHANGED analyzer_vars
    /\ UNCHANGED <<code, language, platform, temp_file, exe_file, temp_dir, remote>>
    /\ UNCHANGED service_vars

\* asyncio.create_subprocess_exec('g++', source_file, '-o', exe_file, ...)
CppCompileSpawn ==
    /\ pc = "cpp_compile_spawn"
    /\ \E o \in SpawnOutcomes :
         IF o = "ok"
            THEN /\ procs' = Append(procs, Started("g++"))
                 /\ pc' = "cpp_compile_wait"
                 /\ UNCHANGED <<disk, result>>
            ELSE /\ procs' = Append(procs, NotStarted("g++", o))
                 /\ disk' = Unlink(disk, {temp_file, exe_file})
                 /\ \E el \in Elapsed : result' = CppCatch(o, el)
                 /\ pc' = "done"
    /\ UNCHANGED analyzer_vars
    /\ UNCHANGED <<code, language, platform, temp_file, exe_file, temp_dir, remote>>
    /\ UNCHANGED service_vars

\* compile_process.communicate() returns (it is awaited without a timeout).
\* The compile-error return removes source_file only; g++ leaves no exe_file
\* behind when it fails.
CppCompileExit ==
    /\ pc = "cpp_compile_wait"
    /\ \/ /\ pc' = "cpp_run_spawn"
          /\ procs' = ExitLast(procs, 0, << >>, << >>)
          /\ disk' = disk \cup {exe_file}
          /\ result' = result
       \/ /\ pc' = "done"
          /\ disk' = Unlink(disk, {temp_file})
          /\ \E err \in ByteStreams, el \in Elapsed :
               /\ procs' = ExitLast(procs, 1, << >>, err)
               /\ result' = Returned(CompileFailed(err, el))
    /\ UNCHANGED analyzer_vars
    /\ UNCHANGED <<code, language, platform, temp_file, exe_file, temp_dir, remote>>
    /\ UNCHANGED service_vars

\* asyncio.create_subprocess_exec(exe_file, ...)
CppRunSpawn ==
    /\ pc = "cpp_run_spawn"
    /\ \E o \in {"ok", "OSError"} :
         IF o = "ok"
            THEN /\ procs' = Append(procs, Started("exe"))
                 /\ pc' = "cpp_run_wait"
                 /\ UNCHANGED <<disk, result>>
            ELSE /\ procs' = Append(procs, NotStarted("exe", o))
                 /\ disk' = Unlink(disk, {temp_file, exe_file})
                 /\ \E el \in Elapsed : result' = CppCatch(o, el)
                 /\ pc' = "done"
    /\ UNCHANGED analyzer_vars
    /\ UNCHANGED <<code, language, platform, temp_file, exe_file, temp_dir, remote>>
    /\ UNCHANGED service_vars

\* asyncio.wait_for(run_process.communicate(), timeout=self.timeout) returns.
CppRunExit ==
    /\ pc = "cpp_run_wait"
    /\ \E sp \in StreamPairs, rc \in ReturnCodes, el \in Elapsed :
         /\ result' = Returned(FromCompiled(sp[1], sp[2], rc, el))
         /\ procs' = ExitLast(procs, rc, sp[1], sp[2])
    /\ disk' = Unlink(disk, {temp_file, exe_file})
    /\ pc' = "done"
    /\ UNCHANGED analyzer_vars
    /\ UNCHANGED <<code, language, platform, temp_file, exe_file, temp_dir, remote>>
    /\ UNCHANGED service_vars

\* asyncio.TimeoutError while the program runs.
CppRunTimeout ==
    /\ pc = "cpp_run_wait"
    /\ procs' = KillLast(LateLast(procs))
    /\ disk' = Unlink(disk, {temp_file, exe_file})
    /\ result' = Returned(TimeoutResult)
    /\ pc' = "done"
    /\ UNCHANGED analyzer_vars
    /\ UNCHANGED <<code, language, platform, temp_file, exe_file, temp_dir, remote>>
    /\ UNCHANGED service_vars

\* -------------------------------------------------------- static analyzer
\* backend/analyzers/static_analyzer.py.  Where the class defines a method
\* twice, the later definition is the one Python binds and the one modelled.

\* An issue, by its title and its severity.
Issue(title, severity) == [title |-> title, severity |-> severity]

\* The dict an analysis returns.  A section (metrics, quality indicators,
\* complexity analysis) is modelled by the set of its keys.
Bundle(i, m, q, c) ==
    [issues |-> i, metrics |-> m, quality_indicators |-> q, complexity_analysis |-> c]

\* _analyze_python, _analyze_javascript: results as first assigned.
EmptyResults == Bundle(<< >>, {}, {}, {})

\* Line counts of an analyzer that memoises across calls: the calls after
\* the first report that they were served from the cache.
LineMetricsCached ==
    {"total_lines", "code_lines", "comment_lines", "blank_lines"}
        \cup (IF history.calls > 0 THEN {"cached"} ELSE {})

\* The line counts every metrics function starts with.
LineMetrics == {"total_lines", "code_lines", "comment_lines", "blank_lines"}

\* An allocation failure (MemoryError, a subclass of Exception) may end any
\* pass of an analysis; "none" is the run in which none does.
Faults == {"none", "MemoryError"}

\* The source text without its trailing whitespace.
RStripCode(c) ==
    LET last == {i \in 1..Len(c) : ~IsSpace(c[i])}
    IN  IF last = {} THEN << >>
        ELSE SubSeq(c, 1, CHOOSE i \in last : \A j \in last : j <= i)

\* ast.parse(code): the text is encoded first; adjacent words are one
\* name, and a name alone is a module unless it is the keyword "class";
\* leading whitespace is an IndentationError and two names in a row are
\* invalid syntax, both SyntaxErrors.
AstParse(c) ==
    LET t == RStripCode(c)
    IN  IF ~Encodable(c) THEN "UnicodeEncodeError"
        ELSE IF (\A i \in 1..Len(t) : IsWord(t[i])) /\ t # <<"class">> THEN "Module"
        ELSE "SyntaxError"

\* _extract_python_metrics, _analyze_python_complexity, _analyze_python_quality
PythonSections ==
    Bundle(<< >>,
           LineMetrics \cup {"functions", "classes", "methods", "loops", "conditions",
                             "try_blocks", "imports", "variables", "max_line_length",
                             "avg_line_length"},
           {"has_docstrings", "has_type_hints", "has_error_handling",
            "follows_naming_conventions", "documentation_ratio",
            "test_coverage_indicators"},
           {"cyclomatic_complexity", "nesting_depth", "function_complexities",
            "class_complexities"})

\* _check_python_syntax_issues, _check_python_style_issues and
\* _check_python_potential_bugs on a module that is one name: it has no
\* import, no definition and no handler, and its one line is reported when
\* it is over 79 characters (long).
PythonIssues(long) == IF long THEN <<Issue("Long Lines", "info")>> ELSE << >>

\* e.lineno of the SyntaxError ast.parse raises: every text of Codes is one
\* line, the first.
ErrorLine == 1

\* _analyze_python without its `except SyntaxError` clause: the generic
\* clause handles every exception.
PythonCatchGeneric(r, e) ==
    IF IsException(e) \/ e = "SyntaxError"
        THEN Returned([r EXCEPT !.issues = Append(@, Issue("Analysis Error", "warning"))])
        ELSE Raised(e)

\* The except clauses of _analyze_python, lines 85-100, and, for what they
\* let through, that of analyze(): r is results when e is raised.  The
\* Syntax Error issue has a line_number key.
PythonCatch(r, e) ==
    IF e = "SyntaxError"
        THEN Returned([r EXCEPT !.issues =
                 Append(@, Issue("Syntax Error", "error") @@ ("line_number" :> ErrorLine))])
    ELSE IF IsException(e)
        THEN Returned([r EXCEPT !.issues = Append(@, Issue("Analysis Error", "warning"))])
    ELSE Raised(e)

\* _extract_js_metrics, _analyze_js_complexity, _analyze_js_quality
JsSections ==
    Bundle(<< >>,
           LineMetrics \cup {"functions", "arrow_functions", "classes", "methods", "loops",
                             "conditions", "try_blocks", "imports", "exports",
                             "variables", "max_line_length", "avg_line_length"},
           {"uses_strict_mode", "has_error_handling", "uses_modern_syntax",
            "has_type_annotations", "documentation_ratio", "uses_semicolons"},
           {"cyclomatic_complexity", "nesting_depth", "function_count", "callback_depth"})

\* _check_js_syntax_issues (line 869) on the one line of the text: a line
\* that is not blank, does not end with one of ; { } ) , and does not start
\* with a statement keyword is reported.  None of the pieces of Codes ends
\* with punctuation, and "class" is the only keyword among them.  The
\* style, security and performance checks look for text ("var ", "==",
\* "console.log", "eval(", "innerHTML", DOM queries) no piece contains.
JsIssues(c) ==
    LET t == RStripCode(c)
        lead == {i \in 1..Len(t) : ~IsSpace(t[i])}
        first == CHOOSE i \in lead : \A j \in lead : i <= j
    IN  IF lead # {} /\ t[first] # "class"
            THEN <<Issue("Missing Semicolon", "info")>>
            ELSE << >>

\* _extract_java_metrics (line 986), _extract_cpp_metrics (line 1045)
JavaMetrics ==
    LineMetrics \cup {"classes", "methods", "interfaces", "loops", "conditions",
                      "try_blocks", "imports"}
CppMetrics ==
    LineMetrics \cup {"functions", "classes", "structs", "loops", "conditions",
                      "includes", "pointers"}

\* _analyze_generic as first defined (line 425), a definition the later
\* one replaces: issues and metrics only.
GenericResultShadowed(l) ==
    [issues |-> <<Issue("Limited analysis for " \o l, "info")>>,
     metrics |-> {"lines", "functions", "complexity"}]

\* _analyze_generic (line 819)
GenericResult(l) ==
    Bundle(<<Issue("Limited Analysis for " \o l, "info")>>,
           {"total_lines", "code_lines", "blank_lines", "estimated_functions",
            "estimated_complexity"},
           {"has_comments", "estimated_documentation_ratio"},
           {"cyclomatic_complexity", "nesting_depth"})

\* _create_error_result (line 1089)
ErrorResult ==
    Bundle(<<Issue("Analysis Error", "error")>>,
           {"total_lines", "code_lines", "functions", "classes", "complexity"}, {}, {})

\* analyze(), lines 45-47: what the call ends with when an analysis raises e.
AnalyzeCatch(e) == IF IsException(e) THEN Returned(ErrorResult) ELSE Raised(e)

\* routes/api.py: the analyze endpoint calls static_analyzer.analyze(code, language).
AnalyzeCall ==
    /\ pc = "idle"
    /\ history.calls < MaxCalls
    /\ code' \in Codes
    /\ language' \in Languages
    /\ pc' = "analyze"
    /\ UNCHANGED executor_vars
    /\ UNCHANGED <<disk, result, results, lint>>
    /\ UNCHANGED history
    /\ UNCHANGED service_vars

\* analyze() returns to its caller (routes/api.py awaits it): the locals of
\* the call are gone; the files it left stay.  The returned call is counted;
\* one returned call is kept as the reference later calls are compared
\* with, and the calls of another input that return after it are counted.
AnalyzeReturn ==
    /\ pc = "analyzed"
    /\ LET this == [kind |-> "call", code |-> code, language |-> language, result |-> result]
       IN  \/ /\ history.first = NoResult
              /\ history' = [history EXCEPT !.calls = @ + 1, !.first = this]
           \/ /\ history.first = NoResult
              /\ history' = [history EXCEPT !.calls = @ + 1]
           \/ /\ history.first # NoResult
              /\ history' = [history EXCEPT !.calls = @ + 1,
                                !.others = IF history.first.code # code
                                                \/ history.first.language # language
                                               THEN 1 ELSE @]
    /\ pc' = "idle"
    /\ result' = NoResult
    /\ results' = NoResult
    /\ lint' = "none"
    /\ UNCHANGED executor_vars
    /\ UNCHANGED <<code, language, disk>>
    /\ UNCHANGED service_vars

\* analyze(), lines 34-43: which analysis a language string selects.
AnalysisOf(l) ==
    CASE l = "python" -> "analyze_python"
      [] l \in {"javascript", "typescript"} -> "analyze_javascript"
      [] l = "java" -> "analyze_java"
      [] l \in {"cpp", "c"} -> "analyze_cpp"
      [] OTHER -> "analyze_generic"

\* analyze(): the dispatch on the language string.
Analyze ==
    /\ pc = "analyze"
    /\ pc' = AnalysisOf(language)
    /\ UNCHANGED executor_vars
    /\ UNCHANGED <<code, language, disk, result, results, lint>>
    /\ UNCHANGED history
    /\ UNCHANGED service_vars

\* _analyze_python up to the pylint run: the parse, the three sections and
\* the three checks.  A fault strikes either before a section is assigned
\* (early) or in the last check, the sections and the issues of the first
\* two checks being in results by then.
AnalyzePython ==
    /\ pc = "analyze_python"
    /\ \E fault \in Faults, early \in BOOLEAN, long \in BOOLEAN :
          LET parsed == AstParse(code)
              found == [PythonSections EXCEPT !.issues = PythonIssues(long)]
          IN  IF parsed # "Module"
                  THEN /\ result' = PythonCatch(EmptyResults, parsed)
                       /\ pc' = "analyzed"
                       /\ results' = results
              ELSE IF fault # "none"
                  THEN /\ result' = PythonCatch(IF early THEN EmptyResults ELSE found, fault)
                       /\ pc' = "analyzed"
                       /\ results' = results
              ELSE /\ results' = found
                   /\ pc' = "run_pylint"
                   /\ result' = result
    /\ UNCHANGED executor_vars
    /\ UNCHANGED <<code, language, disk, lint>>
    /\ UNCHANGED history
    /\ UNCHANGED service_vars

\* _run_pylint, line 239: pylint_output[:10]
PylintLimit == 10

\* How a pylint run ends: the program is not installed ("absent"), does
\* not finish in ten seconds ("timeout"), prints nothing ("silent"), prints
\* what is not JSON ("garbled") or prints a list of messages ("report").
PylintOutcomes == {"absent", "timeout", "silent", "garbled", "report"}

\* The messages of a report: how many, and their type.
PylintCounts == {1, PylintLimit + 1}
PylintTypes == {"error", "convention"}

\* The pylint temporary file.
LintFile == Path("tmp", <<"lint">>, ".py")

\* _run_pylint, lines 239-246: the issues made of n messages of type ty.
PylintIssues(n, ty) ==
    LET kept == IF n < PylintLimit THEN n ELSE PylintLimit
    IN  [i \in 1..kept |->
            Issue(IF ty = "error" THEN "E0602" ELSE "C0103",
                  IF ty = "error" THEN "error" ELSE "warning")]

\* _run_pylint and the end of _analyze_python (lines 80-83, 102): the
\* source is written to a temporary file, pylint is run on it and its
\* messages are added to the issues.  os.unlink is reached only when no
\* exception is raised; every exception is swallowed (lines 250-255).
RunPylint ==
    /\ pc = "run_pylint"
    /\ \E outcome \in PylintOutcomes, n \in PylintCounts, ty \in PylintTypes :
          LET issues == IF outcome = "report" THEN PylintIssues(n, ty) ELSE << >>
          IN  /\ lint' = outcome
              /\ disk' = IF outcome \in {"silent", "report"}
                             THEN Unlink(disk \cup {LintFile}, {LintFile})
                             ELSE disk \cup {LintFile}
              /\ result' = Returned([results EXCEPT !.issues = @ \o issues])
    /\ pc' = "analyzed"
    /\ UNCHANGED executor_vars
    /\ UNCHANGED <<code, language, results>>
    /\ UNCHANGED history
    /\ UNCHANGED service_vars

\* _analyze_javascript: a fault strikes before a section is assigned
\* (early) or in the last check.
AnalyzeJavascript ==
    /\ pc = "analyze_javascript"
    /\ \E fault \in Faults, early \in BOOLEAN :
          LET found == [JsSections EXCEPT !.issues = JsIssues(code)]
          IN  result' =
                  IF fault = "none" THEN Returned(found)
                  ELSE IF ~IsException(fault) THEN Raised(fault)
                  ELSE Returned([(IF early THEN EmptyResults ELSE found)
                                    EXCEPT !.issues = Append(@, Issue("Analysis Error", "warning"))])
    /\ pc' = "analyzed"
    /\ UNCHANGED executor_vars
    /\ UNCHANGED <<code, language, disk, results, lint>>
    /\ UNCHANGED history
    /\ UNCHANGED service_vars

\* _analyze_java (line 971): _check_java_patterns looks for
\* "System.out.println" and an empty catch block, which no piece of Codes
\* contains.  _analyze_java has no handler of its own.
AnalyzeJava ==
    /\ pc = "analyze_java"
    /\ \E fault \in Faults :
          result' = IF fault = "none"
                        THEN Returned(Bundle(<< >>, JavaMetrics, {}, {}))
                        ELSE AnalyzeCatch(fault)
    /\ pc' = "analyzed"
    /\ UNCHANGED executor_vars
    /\ UNCHANGED <<code, language, disk, results, lint>>
    /\ UNCHANGED history
    /\ UNCHANGED service_vars

\* _analyze_cpp (line 1030): _check_cpp_patterns looks for "new " and the
\* unsafe C string functions, which no piece of Codes contains.
AnalyzeCpp ==
    /\ pc = "analyze_cpp"
    /\ \E fault \in Faults :
          result' = IF fault = "none"
                        THEN Returned(Bundle(<< >>, CppMetrics, {}, {}))
                        ELSE AnalyzeCatch(fault)
    /\ pc' = "analyzed"
    /\ UNCHANGED executor_vars
    /\ UNCHANGED <<code, language, disk, results, lint>>
    /\ UNCHANGED history
    /\ UNCHANGED service_vars

\* _analyze_generic (line 819)
AnalyzeGeneric ==
    /\ pc = "analyze_generic"
    /\ \E fault \in Faults :
          result' = IF fault = "none"
                        THEN Returned(GenericResult(language))
                        ELSE AnalyzeCatch(fault)
    /\ pc' = "analyzed"
    /\ UNCHANGED executor_vars
    /\ UNCHANGED <<code, language, disk, results, lint>>
    /\ UNCHANGED history
    /\ UNCHANGED service_vars

\* ------------------------------------------------ concurrent execute() calls
\* Several requests are served by one event loop, so several execute()
\* coroutines on the one CodeExecutor are in flight at once and interleave
\* at every await; the Windows helpers run in pool threads.  Here code,
\* language, pc, temp_file, exe_file, temp_dir and result are functions of
\* the call; disk is the set of files with, for each, the call that wrote
\* it last and the text it holds; procs is the set of file accesses made,
\* each with the call that made it and the call whose file it touched.
Calls == 1..MaxConcurrent

\* The executors that create files, and two programs to tell apart.
Families == {"python", "javascript", "java", "cpp"}
Sources == {<<"id">>, <<"public", " ", "class", " ", "id">>}

\* The names tempfile draws from.
NameOf(i) == "tmp" \o ToString(i)

File(p, c, text) == [path |-> p, by |-> c, text |-> text]
PathsOn(d) == {f.path : f \in d}

\* tempfile.NamedTemporaryFile and tempfile.mkdtemp without O_EXCL: any name.
FreshAny(d, suffix) == {Path("tmp", NameOf(i), suffix) : i \in Calls}

\* tempfile.NamedTemporaryFile(suffix=...) and tempfile.mkdtemp() open with
\* O_EXCL (mkdir for a directory): the name is one no file has.
Fresh(d, suffix) == {Path("tmp", NameOf(i), suffix) : i \in Calls} \ PathsOn(d)

\* os.path.join(temp_dir, f"{class_name}.java") and the class file javac
\* writes next to it; both calls declare the same class.
In(dir, ext) == Path(dir.stem, "Main", ext)

\* What call c finds at path p when it reads, writes or deletes it: the
\* access, with the call whose file it is (0 when there is no file and the
\* call reads or deletes; a write then creates the call's own).
Access(d, c, op, p) ==
    LET at == {f \in d : f.path = p}
    IN  IF at # {} THEN {[call |-> c, op |-> op, by |-> f.by] : f \in at}
        ELSE {[call |-> c, op |-> op, by |-> IF op = "write" THEN c ELSE 0]}

\* open(p, 'w').write(text), or a compiler writing its output.
WriteFile(d, p, c, text) == {f \in d : f.path # p} \cup {File(p, c, text)}

\* What a child process reads at p.
ReadFile(d, p) ==
    IF p \in PathsOn(d) THEN (CHOOSE f \in d : f.path = p).text ELSE <<"missing">>

\* The artifacts of call c: what its clean-up removes.  shutil.rmtree
\* removes the directory and every file in it.
Artifacts(d, c) ==
    IF language[c] = "java"
        THEN {temp_dir[c]} \cup {p \in PathsOn(d) : p.dir = temp_dir[c].stem}
        ELSE {temp_file[c], exe_file[c]} \ {None}

\* The accesses of the clean-up of call c: the files that exist are removed.
Removals(d, c, ps) ==
    UNION {Access(d, c, "delete", p) : p \in ps \cap PathsOn(d)}

InitConcurrent ==
    /\ code = [c \in Calls |-> << >>]
    /\ language = [c \in Calls |-> ""]
    /\ platform = "Linux"
    /\ pc = [c \in Calls |-> "idle"]
    /\ disk = {}
    /\ temp_file = [c \in Calls |-> None]
    /\ exe_file = [c \in Calls |-> None]
    /\ temp_dir = [c \in Calls |-> None]
    /\ procs = {}
    /\ remote = << >>
    /\ result = [c \in Calls |-> NoResult]
    /\ results = NoResult
    /\ lint = "none"
    /\ history = [calls |-> 0, first |-> NoResult, others |-> 0]
    /\ now = 0
    /\ requests = << >>
    /\ cache = << >>
    /\ trace = NoResult

\* execute() up to the first await of the executor it selects: the
\* temporary file is created and written (lines 247-249, 345-347,
\* 623-627), or the directory is made and <class>.java written in it
\* (lines 511-517).
ExecuteCreate(c) ==
    /\ pc[c] = "idle"
    /\ \E text \in Sources, fam \in Families :
          /\ code' = [code EXCEPT ![c] = text]
          /\ language' = [language EXCEPT ![c] = fam]
          /\ IF fam = "java"
                THEN \E dir \in Fresh(disk, "") :
                        /\ temp_dir' = [temp_dir EXCEPT ![c] = dir]
                        /\ temp_file' = [temp_file EXCEPT ![c] = In(dir, ".java")]
                        /\ exe_file' = exe_file
                        /\ disk' = WriteFile(WriteFile(disk, dir, c, << >>),
                                             In(dir, ".java"), c, text)
                        /\ procs' = procs \cup Access(disk, c, "write", dir)
                                          \cup Access(disk, c, "write", In(dir, ".java"))
                ELSE \E f \in Fresh(disk, Suffix(fam)) :
                        /\ temp_file' = [temp_file EXCEPT ![c] = f]
                        /\ exe_file' = [exe_file EXCEPT
                                           ![c] = IF fam = "cpp" THEN ExeOf(f) ELSE None]
                        /\ temp_dir' = temp_dir
                        /\ disk' = WriteFile(disk, f, c, text)
                        /\ procs' = procs \cup Access(disk, c, "write", f)
          /\ pc' = [pc EXCEPT ![c] = IF fam \in Interp THEN "run" ELSE "compile"]
    /\ UNCHANGED <<platform, remote, result>>
    /\ UNCHANGED analyzer_vars
    /\ UNCHANGED service_vars

\* javac or g++ runs while the call awaits it: it reads the source and
\* writes the class file or exe_file, or it reports an error, and the call
\* removes the source (line 668) or the directory (line 595) and returns.
ExecuteCompile(c) ==
    /\ pc[c] = "compile"
    /\ LET out == IF language[c] = "java" THEN In(temp_dir[c], ".class") ELSE exe_file[c]
           read == Access(disk, c, "read", temp_file[c])
           gone == IF language[c] = "java" THEN Artifacts(disk, c) ELSE {temp_file[c]}
       IN  \/ /\ disk' = WriteFile(disk, out, c, ReadFile(disk, temp_file[c]))
              /\ procs' = procs \cup read \cup Access(disk, c, "write", out)
              /\ pc' = [pc EXCEPT ![c] = "run"]
              /\ result' = result
           \/ /\ disk' = {f \in disk : f.path \notin gone}
              /\ procs' = procs \cup read \cup Removals(disk, c, gone)
              /\ pc' = [pc EXCEPT ![c] = "done"]
              /\ result' = [result EXCEPT ![c] = Returned(<<"Compilation error">>)]
    /\ UNCHANGED <<code, language, platform, temp_file, exe_file, temp_dir, remote>>
    /\ UNCHANGED analyzer_vars
    /\ UNCHANGED service_vars

\* The program runs while the call awaits it: the interpreter reads
\* temp_file, java the class file, and exe_file is executed.  What the call
\* will report is what the program read there does.
ExecuteRun(c) ==
    /\ pc[c] = "run"
    /\ LET ran == CASE language[c] = "java" -> In(temp_dir[c], ".class")
                    [] language[c] = "cpp" -> exe_file[c]
                    [] OTHER -> temp_file[c]
       IN  /\ procs' = procs \cup Access(disk, c, "read", ran)
           /\ result' = [result EXCEPT ![c] = Returned(ReadFile(disk, ran))]
    /\ pc' = [pc EXCEPT ![c] = "cleanup"]
    /\ UNCHANGED <<code, language, platform, disk, temp_file, exe_file, temp_dir, remote>>
    /\ UNCHANGED analyzer_vars
    /\ UNCHANGED service_vars

\* The clean-up after the await, with no await in it: os.unlink of the
\* files that exist, or shutil.rmtree(temp_dir); then the return.
ExecuteCleanUp(c) ==
    /\ pc[c] = "cleanup"
    /\ disk' = {f \in disk : f.path \notin Artifacts(disk, c)}
    /\ procs' = procs \cup Removals(disk, c, Artifacts(disk, c))
    /\ pc' = [pc EXCEPT ![c] = "done"]
    /\ UNCHANGED <<code, language, platform, temp_file, exe_file, temp_dir, remote, result>>
    /\ UNCHANGED analyzer_vars
    /\ UNCHANGED service_vars

\* ------------------------------------------------- python syntax trees
\* The passes of _analyze_python that walk the tree ast.parse returns,
\* computed on syntax trees.  A node has its class name (type), its child
\* nodes in the order ast.iter_child_nodes yields them (kids) and, for a
\* function definition, its name and the classes of the expressions in
\* args.defaults and args.kw_defaults.  elif marks an If that the source
\* writes as an `elif` of its parent: ast.parse puts it alone in the
\* parent's orelse, as it does an `if` nested in an `else` block.
Node(type, kids) ==
    [type |-> type, kids |-> kids, name |-> "", defaults |-> << >>,
     kw_defaults |-> << >>, elif |-> FALSE, id |-> "", names |-> << >>]

\* The expression `x`: a Name node with its id.
Name(x) == [Node("Name", << >>) EXCEPT !.id = x]

\* def name(): body, async def name(): body, class name: body.
Def(type, name, body) == [Node(type, <<Node("arguments", << >>)>> \o body) EXCEPT !.name = name]

\* The statements nested at most d deep: an assignment; and, around a
\* statement nested less, an `if` (test, body), an `if` with an `elif`
\* branch (test, body, and the elif's If in orelse) or a `for` (target,
\* iter, body).
RECURSIVE Stmts(_)
Stmts(d) ==
    IF d = 0 THEN {Node("Assign", <<Node("Name", << >>), Node("Constant", << >>)>>)}
    ELSE LET inner == Stmts(d - 1)
             test == Node("Name", << >>)
             branch == [Node("If", <<test>> \o <<CHOOSE s \in Stmts(0) : TRUE>>)
                           EXCEPT !.elif = TRUE]
         IN  inner
             \cup {Node("If", <<test, s>>) : s \in inner}
             \cup {Node("If", <<test, s, branch>>) : s \in inner}
             \cup {Node("For", <<test, test, s>>) : s \in inner}

\* def f(...) and async def f(...) with up to two positional defaults and up
\* to one keyword-only default, each a list literal, a constant or a call;
\* the default expressions are children of the arguments node.
FunctionDefs ==
    LET kinds == {"List", "Constant", "Call"}
        upto2 == {<< >>} \cup {<<k>> : k \in kinds} \cup {<<k, l>> : k \in kinds, l \in kinds}
        upto1 == {<< >>} \cup {<<k>> : k \in kinds}
        args(ds, ks) == Node("arguments", [i \in 1..Len(ks \o ds) |-> Node((ks \o ds)[i], << >>)])
    IN  {[Node(ty, <<args(ds, ks), Node("Pass", << >>)>>)
             EXCEPT !.name = "f", !.defaults = ds, !.kw_defaults = ks] :
            ty \in {"FunctionDef", "AsyncFunctionDef"}, ds \in upto2, ks \in upto1}

\* Import statements, each alone or followed by an expression statement
\* that is a name or the attribute a.b: `import m`, `import m as a`,
\* `import a.b`, `import m, n`, `from p import n`, `from p import n as a`.
\* The names of an import are its aliases, each with its name and its
\* asname ("None" when there is no `as`).
ImportModules ==
    LET alias(n, a) == [name |-> n, asname |-> a]
        imports == {[Node(ty, << >>) EXCEPT !.names = ns] :
                       ty \in {"Import", "ImportFrom"},
                       ns \in {<<alias("m", "None")>>, <<alias("m", "a")>>,
                               <<alias("a.b", "None")>>,
                               <<alias("m", "None"), alias("n", "None")>>}}
        uses == {Name(x) : x \in {"m", "a", "n"}} \cup {Node("Attribute", <<Name("a")>>)}
    IN  {Node("Module", <<i>>) : i \in imports}
            \cup {Node("Module", <<i, Node("Expr", <<u>>)>>) : i \in imports, u \in uses}

\* Modules of one or two definitions: a function, an async function, and a
\* class with a method, with an async method, or with a method that
\* defines a function of its own.
ClassModules ==
    LET pass == <<Node("Pass", << >>)>>
        defs == {Def("FunctionDef", "g", pass), Def("AsyncFunctionDef", "g", pass),
                 Def("ClassDef", "C", <<Def("FunctionDef", "m", pass)>>),
                 Def("ClassDef", "C", <<Def("AsyncFunctionDef", "m", pass)>>),
                 Def("ClassDef", "C",
                     <<Def("FunctionDef", "m", <<Def("FunctionDef", "g", pass)>>)>>)}
    IN  {Node("Module", <<d>>) : d \in defs}
            \cup {Node("Module", <<d, e>>) : d \in defs, e \in defs}

\* Conditions: the expressions `a and b`, `a and b and c` and
\* `a and b or c`, each as a statement and as the test of an `if`.  The
\* operator of a BoolOp is its first child, its values are the others.
BoolModules ==
    LET both == Node("BoolOp", <<Node("And", << >>), Name("a"), Name("b")>>)
        ops == {both,
                Node("BoolOp", <<Node("And", << >>), Name("a"), Name("b"), Name("c")>>),
                Node("BoolOp", <<Node("Or", << >>), both, Name("c")>>)}
    IN  {Node("Module", <<Node("Expr", <<o>>)>>) : o \in ops}
            \cup {Node("Module", <<Node("If", <<o, Node("Pass", << >>)>>)>>) : o \in ops}

\* The modules of the model: one statement nested at most MaxDepth deep,
\* one function definition with defaults, or one of the modules above.
Trees ==
    {Node("Module", <<s>>) : s \in Stmts(MaxDepth) \cup FunctionDefs}
        \cup ImportModules \cup ClassModules \cup BoolModules

\* ast.walk: the nodes of the queue and their descendants, breadth first.
RECURSIVE WalkAll(_)
WalkAll(todo) ==
    IF todo = << >> THEN << >>
    ELSE <<Head(todo)>> \o WalkAll(Tail(todo) \o Head(todo).kids)

\* _calculate_max_nesting_depth, get_depth (lines 457-467)
RECURSIVE GetDepth(_, _)
GetDepth(node, current_depth) ==
    LET inside == IF node.type \in {"If", "For", "While", "With", "Try"}
                      THEN current_depth + 1 ELSE current_depth
        depths == {current_depth}
                      \cup {GetDepth(node.kids[i], inside) : i \in 1..Len(node.kids)}
    IN  CHOOSE m \in depths : \A x \in depths : x <= m

\* What the nodes add to a cyclomatic complexity (lines 157-161 and
\* 447-451): one for each If, For, While and ExceptHandler, and
\* len(node.values) - 1 for each BoolOp.
RECURSIVE Branching(_)
Branching(nodes) ==
    IF nodes = << >> THEN 0
    ELSE LET node == Head(nodes)
         IN  (IF node.type \in {"If", "For", "While", "ExceptHandler"} THEN 1
              ELSE IF node.type = "BoolOp" THEN (Len(node.kids) - 1) - 1
              ELSE 0)
             + Branching(Tail(nodes))

\* _analyze_python_complexity: the complexity analysis of a tree.
PythonComplexity(tree) ==
    LET nodes == WalkAll(<<tree>>)
        defs == SelectSeq(nodes, LAMBDA n : n.type = "FunctionDef")
    IN  [cyclomatic_complexity |-> 1 + Branching(nodes),
         nesting_depth |-> GetDepth(tree, 0),
         function_complexities |->
             [i \in 1..Len(defs) |->
                 [name |-> defs[i].name,
                  complexity |-> 1 + Branching(WalkAll(<<defs[i]>>))]],
         class_complexities |-> << >>]

\* _extract_python_metrics, lines 126-143: the counts made on the tree.  A
\* FunctionDef is a method when the node has an attribute `parent` that is
\* a ClassDef.  Every Assign of the model has one target.
PythonMetrics(tree) ==
    LET nodes == WalkAll(<<tree>>)
        count(types) == Len(SelectSeq(nodes, LAMBDA n : n.type \in types))
        method(n) == "parent" \in DOMAIN n /\ n.parent.type = "ClassDef"
    IN  [functions |-> Len(SelectSeq(nodes, LAMBDA n : n.type = "FunctionDef" /\ ~method(n))),
         methods |-> Len(SelectSeq(nodes, LAMBDA n : n.type = "FunctionDef" /\ method(n))),
         classes |-> count({"ClassDef"}),
         loops |-> count({"For", "While"}),
         conditions |-> count({"If"}),
         try_blocks |-> count({"Try"}),
         imports |-> count({"Import", "ImportFrom"}),
         variables |-> count({"Assign"})]

\* The items of a sequence of sequences, in order.
RECURSIVE Flatten(_)
Flatten(ss) == IF ss = << >> THEN << >> ELSE Head(ss) \o Flatten(Tail(ss))

\* _check_python_syntax_issues (line 471): alias.name of every alias of
\* every Import and ImportFrom, the id of every Name, and one issue that
\* lists the former that are not among the latter.
SyntaxIssues(tree) ==
    LET nodes == WalkAll(<<tree>>)
        imports == Flatten([i \in 1..Len(nodes) |->
                       IF nodes[i].type \in {"Import", "ImportFrom"}
                           THEN [j \in 1..Len(nodes[i].names) |-> nodes[i].names[j].name]
                           ELSE << >>])
        used_names == {nodes[i].id : i \in {k \in 1..Len(nodes) : nodes[k].type = "Name"}}
        unused_imports == SelectSeq(imports, LAMBDA imp : imp \notin used_names)
    IN  IF unused_imports # << >>
            THEN <<Issue("Unused Imports", "warning") @@ ("imports" :> unused_imports)>>
            ELSE << >>

\* _check_python_potential_bugs, lines 535-545: one issue for each List,
\* Dict or Set among node.args.defaults of each FunctionDef node.  (The
\* trees of the model have no except clause for the second check.)
RECURSIVE PotentialBugs(_)
PotentialBugs(nodes) ==
    IF nodes = << >> THEN << >>
    ELSE LET node == Head(nodes)
             mutable == IF node.type = "FunctionDef"
                            THEN SelectSeq(node.defaults,
                                           LAMBDA d : d \in {"List", "Dict", "Set"})
                            ELSE << >>
         IN  [i \in 1..Len(mutable) |->
                 Issue("Mutable Default Argument", "warning") @@ ("function" :> node.name)]
             \o PotentialBugs(Tail(nodes))

\* tree = ast.parse(code)
ParseTree ==
    /\ pc = "idle"
    /\ code' \in Trees
    /\ pc' = "parsed"
    /\ UNCHANGED executor_vars
    /\ UNCHANGED <<language, disk, result, results, lint>>
    /\ UNCHANGED history
    /\ UNCHANGED service_vars

\* results["metrics"] = self._extract_python_metrics(tree, code)
MetricsPass ==
    /\ pc = "parsed"
    /\ results' = [EmptyResults EXCEPT !.metrics = PythonMetrics(code)]
    /\ pc' = "counted"
    /\ UNCHANGED executor_vars
    /\ UNCHANGED <<code, language, disk, result, lint, history>>
    /\ UNCHANGED service_vars

\* results["complexity_analysis"] = self._analyze_python_complexity(tree)
ComplexityPass ==
    /\ pc = "counted"
    /\ results' = [results EXCEPT !.complexity_analysis = PythonComplexity(code)]
    /\ pc' = "measured"
    /\ UNCHANGED executor_vars
    /\ UNCHANGED <<code, language, disk, result, lint>>
    /\ UNCHANGED history
    /\ UNCHANGED service_vars

\* syntax_issues = self._check_python_syntax_issues(tree, code);
\* results["issues"].extend(syntax_issues)
SyntaxPass ==
    /\ pc = "measured"
    /\ results' = [results EXCEPT !.issues = @ \o SyntaxIssues(code)]
    /\ pc' = "inspected"
    /\ UNCHANGED executor_vars
    /\ UNCHANGED <<code, language, disk, result, lint, history>>
    /\ UNCHANGED service_vars

\* bug_issues = self._check_python_potential_bugs(tree, code);
\* results["issues"].extend(bug_issues)
BugPass ==
    /\ pc = "inspected"
    /\ results' = [results EXCEPT !.issues = @ \o PotentialBugs(WalkAll(<<code>>))]
    /\ pc' = "checked"
    /\ UNCHANGED executor_vars
    /\ UNCHANGED <<code, language, disk, result, lint>>
    /\ UNCHANGED history
    /\ UNCHANGED service_vars

\* ------------------------------------------------- text scans (C/C++, JS)
\* The passes of _analyze_cpp and _analyze_javascript that search the text,
\* computed on sources that are sequences of pieces: words ("new",
\* "delete", "if", "a"), the operator "&&" and the space.  Adjacent words
\* form one longer word.
Words == {"new", "delete", "if", "a"}

\* The pieces the sources of a language are made of.
Pieces(l) == IF l = "cpp" THEN {"new", "delete", " ", "a"} ELSE {"if", "&&", " ", "a"}

\* The sources of at most MaxPieces pieces.
Texts(l) == UNION {[1..n -> Pieces(l)] : n \in 1..MaxPieces}

\* _check_cpp_patterns (line 1065): the memory-leak check,
\* 'new ' in code and 'delete' not in code.  'new ' is a piece "new"
\* followed by a space.  No source of the model calls gets, strcpy or
\* sprintf.
CheckCppPatterns(c) ==
    LET new_space == \E i \in 1..(Len(c) - 1) : c[i] = "new" /\ c[i + 1] = " "
        delete == \E i \in 1..Len(c) : c[i] = "delete"
    IN  IF new_space /\ ~delete
            THEN <<Issue("Potential memory leak", "warning")>>
            ELSE << >>

\* \b before and after the piece at i: a word boundary lies between a word
\* and what is not one (an operator, a space, the end of the text).
BoundedAt(c, i) ==
    LET before == i > 1 /\ c[i - 1] \in Words
        after == i < Len(c) /\ c[i + 1] \in Words
    IN  IF c[i] \in Words THEN ~before /\ ~after ELSE before /\ after

\* _analyze_js_complexity, lines 346-348:
\* re.findall(r'\b(if|for|while|case|catch|\?|&&|\|\|)\b', code)
ComplexityKeywords(c) ==
    {i \in 1..Len(c) : c[i] \in {"if", "for", "while", "case", "catch", "?", "&&", "||"}
                         /\ BoundedAt(c, i)}

\* analyze(code, language) for cpp or javascript
ScanCall ==
    /\ pc = "idle"
    /\ \E l \in {"cpp", "javascript"} :
          /\ language' = l
          /\ code' \in Texts(l)
          /\ pc' = AnalysisOf(l)
    /\ UNCHANGED executor_vars
    /\ UNCHANGED <<disk, result, results, lint, history>>
    /\ UNCHANGED service_vars

\* _analyze_cpp (line 1030): the issues of _check_cpp_patterns.
ScanCpp ==
    /\ pc = "analyze_cpp"
    /\ result' = Returned(Bundle(CheckCppPatterns(code), CppMetrics, {}, {}))
    /\ pc' = "scanned"
    /\ UNCHANGED executor_vars
    /\ UNCHANGED <<code, language, disk, results, lint, history>>
    /\ UNCHANGED service_vars

\* _analyze_javascript, line 283: the complexity analysis.  The nesting
\* depth is 0 (no brace), and so are function_count and callback_depth.
ScanJavascript ==
    /\ pc = "analyze_javascript"
    /\ result' = Returned([JsSections EXCEPT !.complexity_analysis =
                     [cyclomatic_complexity |-> 1 + Cardinality(ComplexityKeywords(code)),
                      nesting_depth |-> 0, function_count |-> 0, callback_depth |-> 0]])
    /\ pc' = "scanned"
    /\ UNCHANGED executor_vars
    /\ UNCHANGED <<code, language, disk, results, lint, history>>
    /\ UNCHANGED service_vars

\* ------------------------------------------------------------ RateLimiter
\* The clients are the hosts requests come from.  Time is counted in
\* ticks, Minute of them to sixty seconds; trace holds the times at which
\* each client was let through, and what the last call found.
Clients == {"10.0.0.1", "10.0.0.2"}

InitLimiter ==
    /\ code = << >>
    /\ language = ""
    /\ platform = "Linux"
    /\ pc = "idle"
    /\ disk = {}
    /\ temp_file = None
    /\ exe_file = None
    /\ temp_dir = None
    /\ procs = << >>
    /\ remote = << >>
    /\ result = NoResult
    /\ results = NoResult
    /\ lint = "none"
    /\ history = [calls |-> 0, first |-> NoResult, others |-> 0]
    /\ now = 0
    /\ requests = [c \in Clients |-> << >>]
    /\ cache = << >>
    /\ trace = [granted |-> [c \in Clients |-> << >>], last |-> NoResult]

\* Time passes.
Tick ==
    /\ now < MaxTime
    /\ now' = now + 1
    /\ UNCHANGED <<code, language, pc, disk, result, requests, cache, trace>>
    /\ UNCHANGED executor_vars
    /\ UNCHANGED analyzer_vars

\* A limit check that lets one request too many through.
OverLimitLate(request_count) == request_count > requests_per_minute

\* is_allowed, line 38: request_count >= self.requests_per_minute
OverLimit(request_count) == request_count >= requests_per_minute

\* is_allowed, lines 30-33: the request times of the last minute.
Recent(times, current_time) ==
    LET minute_ago == current_time - Minute
    IN  SelectSeq(times, LAMBDA req_time : req_time > minute_ago)

\* RateLimiter.is_allowed(client_id).  self.requests is a defaultdict: a
\* client not seen before has the empty list.
IsAllowed(client_id) ==
    /\ pc = "idle"
    /\ LET kept == Recent(requests[client_id], now)
           request_count == Len(kept)
           seen == [client |-> client_id, at |-> now, before |-> requests]
       IN  IF OverLimit(request_count)
               THEN /\ requests' = [requests EXCEPT ![client_id] = kept]
                    /\ result' = Returned(<<FALSE, 0>>)
                    /\ trace' = [trace EXCEPT !.last = seen]
               ELSE /\ requests' = [requests EXCEPT ![client_id] = Append(kept, now)]
                    /\ result' = Returned(<<TRUE, requests_per_minute - request_count - 1>>)
                    /\ trace' = [trace EXCEPT !.last = seen,
                                              !.granted[client_id] = Append(@, now)]
    /\ UNCHANGED <<code, language, pc, disk, now, cache>>
    /\ UNCHANGED executor_vars
    /\ UNCHANGED analyzer_vars

\* ---------------------------------------------------------- AnalysisCache
\* Codes and languages are texts in pieces; ":" is the colon.  Time is in
\* ticks, ttl of them to the time an entry lives.  trace.last_set holds,
\* for each (code, language) given to set, the result and the time of the
\* latest such call; trace.got holds, right after a get, what it was asked
\* and what it left in the cache.
CacheInputs == {<<<<"a">>, <<"c">>>>, <<<<"a", ":", "b">>, <<"c">>>>, <<<<"a">>, <<"b", ":", "c">>>>}
CacheResults == {"r1", "r2"}

\* _get_cache_key: md5 of f"{code}:{language}".  The digest is taken to be
\* different for different contents, so the key is the content itself.
CacheKey(c, l) == c \o <<":">> \o l

\* del self.cache[key] for every key of ks
Without(entries, ks) == [k \in DOMAIN entries \ ks |-> entries[k]]

\* _cleanup_old_entries: the entries ttl old or older are removed.
CleanedUp(entries, current_time) ==
    Without(entries, {k \in DOMAIN entries : current_time - entries[k].timestamp >= ttl})

InitCache ==
    /\ code = << >>
    /\ language = ""
    /\ platform = "Linux"
    /\ pc = "idle"
    /\ disk = {}
    /\ temp_file = None
    /\ exe_file = None
    /\ temp_dir = None
    /\ procs = << >>
    /\ remote = << >>
    /\ result = NoResult
    /\ results = NoResult
    /\ lint = "none"
    /\ history = [calls |-> 0, first |-> NoResult, others |-> 0]
    /\ now = 0
    /\ requests = << >>
    /\ cache = << >>
    /\ trace = [last_set |-> << >>, got |-> NoResult]

\* AnalysisCache.set(code, language, result)
CacheSet(c, l, r) ==
    /\ pc = "idle"
    /\ LET key == CacheKey(c, l)
           stored == (key :> [result |-> r, timestamp |-> now]) @@ cache
       IN  cache' = IF Cardinality(DOMAIN stored) > cleanup_above
                        THEN CleanedUp(stored, now) ELSE stored
    /\ trace' = [last_set |-> (<<c, l>> :> [result |-> r, at |-> now]) @@ trace.last_set,
                 got |-> NoResult]
    /\ UNCHANGED <<code, language, pc, disk, result, now, requests>>
    /\ UNCHANGED executor_vars
    /\ UNCHANGED analyzer_vars

\* AnalysisCache.get(code, language): the result of the entry of the key
\* when it is less than ttl old; an older entry is removed; None otherwise.
CacheGet(c, l) ==
    /\ pc = "idle"
    /\ LET key == CacheKey(c, l)
           hit == key \in DOMAIN cache /\ now - cache[key].timestamp < ttl
           expired == key \in DOMAIN cache /\ ~hit
       IN  /\ result' = Returned(IF hit THEN cache[key].result ELSE "None")
           /\ cache' = IF expired THEN Without(cache, {key}) ELSE cache
           /\ trace' = [trace EXCEPT !.got =
                  [code |-> c, language |-> l, at |-> now, expired |-> expired,
                   left |-> key \in DOMAIN cache',
                   last |-> IF <<c, l>> \in DOMAIN trace.last_set
                                THEN trace.last_set[<<c, l>>] ELSE NoResult]]
    /\ UNCHANGED <<code, language, pc, disk, now, requests>>
    /\ UNCHANGED executor_vars
    /\ UNCHANGED analyzer_vars

\* time.time() moves on between two calls.
CacheTick ==
    /\ now < MaxTime
    /\ now' = now + 1
    /\ trace' = [trace EXCEPT !.got = NoResult]
    /\ UNCHANGED <<code, language, pc, disk, result, requests, cache>>
    /\ UNCHANGED executor_vars
    /\ UNCHANGED analyzer_vars

\* AnalysisCache.clear()
CacheClear ==
    /\ pc = "idle"
    /\ cache' = << >>
    /\ trace' = [trace EXCEPT !.got = NoResult]
    /\ UNCHANGED <<code, language, pc, disk, result, now, requests>>
    /\ UNCHANGED executor_vars
    /\ UNCHANGED analyzer_vars

\* ------------------------------------------------------- analyze endpoint
\* POST /analyze, one request at a time.  results holds the locals of the
\* request being served (execute, execution_result), result the response,
\* trace what the request did: its execute flag, the calls it made and
\* whether its response was built from a cache entry.
Callers == {"10.0.0.1"}
RequestCodes == {<<"x">>}
RequestLanguages == {"auto", "python"}
Analyses == {"s1", "s2"}
ExecData == {"ran", "failed"}

\* detect_language(code, provided_language): the provided language when it
\* is one of the detector's names, else the language whose patterns match,
\* else the provided language or 'javascript'.
DetectLanguage(c, provided_language) ==
    IF provided_language \in {"python", "javascript", "java", "cpp", "typescript", "go", "rust"}
        THEN provided_language
    ELSE IF \E i \in 1..Len(c) : c[i] = "print(" THEN "python"
    ELSE IF \E i \in 1..Len(c) : c[i] = "console.log(" THEN "javascript"
    ELSE IF provided_language # "None" THEN provided_language
    ELSE "javascript"

\* if not analysis_request.execute: ... analysis_cache.set(...)
CachesEvenExecuted(execute) == TRUE
Caches(execute) == ~execute

\* cache_data = response.dict(); cache_data.pop('execution', None)
CacheData(response) == [k \in DOMAIN response \ {"execution"} |-> response[k]]

\* CodeAnalysisResponse(**cached_result): execution is None by default.
FromCache(cached_result) == [execution |-> "None"] @@ cached_result

InitEndpoint ==
    /\ code = << >>
    /\ language = ""
    /\ platform = "Linux"
    /\ pc = "idle"
    /\ disk = {}
    /\ temp_file = None
    /\ exe_file = None
    /\ temp_dir = None
    /\ procs = << >>
    /\ remote = << >>
    /\ result = NoResult
    /\ results = NoResult
    /\ lint = "none"
    /\ history = [calls |-> 0, first |-> NoResult, others |-> 0]
    /\ now = 0
    /\ requests = [c \in Callers |-> << >>]
    /\ cache = << >>
    /\ trace = [execute |-> FALSE, did |-> {}, cached |-> FALSE]

\* analyze_code up to its first await: the rate limit (429 when denied),
\* the language, and for execute=false the cache lookup, whose hit is the
\* response.
AnalyzeCode(client_ip, c, l, execute) ==
    /\ pc = "idle"
    /\ LET kept == Recent(requests[client_ip], now)
           detected_language == DetectLanguage(c, IF l # "auto" THEN l ELSE "None")
           key == CacheKey(c, <<detected_language>>)
           hit == key \in DOMAIN cache /\ now - cache[key].timestamp < ttl
       IN  IF OverLimit(Len(kept))
           THEN /\ requests' = [requests EXCEPT ![client_ip] = kept]
                /\ result' = Returned([status |-> 429])
                /\ trace' = [execute |-> execute, did |-> {}, cached |-> FALSE]
                /\ UNCHANGED <<code, language, pc, results, cache>>
           ELSE /\ requests' = [requests EXCEPT ![client_ip] = Append(kept, now)]
                /\ code' = c
                /\ language' = detected_language
                /\ results' = [execute |-> execute, execution_result |-> "None"]
                /\ IF ~execute
                   THEN /\ cache' = IF key \in DOMAIN cache /\ ~hit
                                        THEN Without(cache, {key}) ELSE cache
                        /\ trace' = [execute |-> execute, did |-> {"get"}, cached |-> hit]
                        /\ IF hit
                           THEN /\ result' = Returned(FromCache(cache[key].result))
                                /\ pc' = "idle"
                           ELSE /\ result' = NoResult
                                /\ pc' = "analyzing"
                   ELSE /\ cache' = cache
                        /\ trace' = [execute |-> execute, did |-> {}, cached |-> FALSE]
                        /\ result' = NoResult
                        /\ pc' = "executing"
    /\ UNCHANGED <<disk, now, lint, history>>
    /\ UNCHANGED executor_vars

\* exec_data = await code_executor.execute(code, detected_language)
RunExecutor ==
    /\ pc = "executing"
    /\ \E exec_data \in ExecData :
          results' = [results EXCEPT !.execution_result = exec_data]
    /\ trace' = [trace EXCEPT !.did = @ \cup {"execute"}]
    /\ pc' = "analyzing"
    /\ UNCHANGED <<code, language, disk, result, now, requests, cache, lint, history>>
    /\ UNCHANGED executor_vars

\* The analyzers, the response, and the cache entry of an execute=false
\* request; an exception of any of it is answered with 500.
RunAnalyzers ==
    /\ pc = "analyzing"
    /\ pc' = "idle"
    /\ \/ /\ result' = Returned([status |-> 500])
          /\ trace' = [trace EXCEPT !.did = @ \cup {"analyze"}]
          /\ UNCHANGED cache
       \/ \E a \in Analyses :
             LET response == [status |-> 200, analysis |-> a,
                              execution |-> results.execution_result]
                 key == CacheKey(code, <<language>>)
                 stored == (key :> [result |-> CacheData(response), timestamp |-> now]) @@ cache
             IN  /\ result' = Returned(response)
                 /\ IF Caches(results.execute)
                    THEN /\ cache' = IF Cardinality(DOMAIN stored) > cleanup_above
                                         THEN CleanedUp(stored, now) ELSE stored
                         /\ trace' = [trace EXCEPT !.did = @ \cup {"analyze", "set"}]
                    ELSE /\ cache' = cache
                         /\ trace' = [trace EXCEPT !.did = @ \cup {"analyze"}]
    /\ UNCHANGED <<code, language, disk, results, now, requests, lint, history>>
    /\ UNCHANGED executor_vars

\* ------------------------------------------------ scoring and issue merge
\* backend/routes/api.py: calculate_overall_score and combine_issues, applied
\* to the results of the static analysis and of the AI analysis.  The AI
\* result is the JSON object a language model wrote, taken as it is
\* (ai_analyzer.py, _validate_and_enhance_result, only adds missing keys).

\* d.get(k, default)
Get(d, k, default) == IF k \in DOMAIN d THEN d[k] ELSE default

\* A list of n copies of x.
Repeat(x, n) == [i \in 1..n |-> x]

\* The items of an analyzer's list: dicts with the key set to one of the
\* values, and a dict without the key.
Items(key, values) ==
    {("title" :> "t")} \cup {("title" :> "t") @@ (key :> v) : v \in values}

\* The lists of the model: empty, one item, or MaxIssues copies of an item.
Lists(items) == {<< >>} \cup {Repeat(x, n) : x \in items, n \in {1, MaxIssues}}

\* static_results: issues of every severity an analysis can write plus one
\* outside the enumeration ("critical") and one missing; the sections as
\* dicts with their values, documentation_ratio in percent.
StaticResults ==
    {Bundle(i, << >>, q, c) :
        i \in Lists(Items("severity", {"error", "warning", "info", "critical"})),
        q \in {<< >>,
               [has_error_handling |-> FALSE, has_docstrings |-> FALSE,
                documentation_ratio |-> 0],
               [has_error_handling |-> TRUE, has_docstrings |-> FALSE,
                documentation_ratio |-> 50]},
        c \in {<< >>,
               [cyclomatic_complexity |-> 1, nesting_depth |-> 0],
               [cyclomatic_complexity |-> 30, nesting_depth |-> 20]}}

\* ai_results: the keys calculate_overall_score and combine_issues read.
AiResults ==
    [issues : Lists(Items("severity", {"error", "warning", "info", "critical"})),
     improvements : {<< >>, Repeat(("title" :> "t"), 1),
                     Repeat([title |-> "t", priority |-> "high"], MaxIssues)},
     security_concerns : {<< >>, Repeat(("title" :> "t"), 1),
                          Repeat([title |-> "t", severity |-> "critical"], MaxIssues)},
     score : {-50, 80, 1000}]

\* The points a loop of calculate_overall_score takes off for a list: each
\* item costs table[item.get(key, default)], or other when the value is not
\* in the table.
RECURSIVE Deduction(_, _, _, _, _)
Deduction(list, key, default, table, other) ==
    IF list = << >> THEN 0
    ELSE LET v == Get(Head(list), key, default)
         IN  (IF v \in DOMAIN table THEN table[v] ELSE other)
             + Deduction(Tail(list), key, default, table, other)

\* calculate_overall_score, lines 360-425: base_score before the weighting.
BaseScore(s, a) ==
    LET cc == Get(Get(s, "complexity_analysis", << >>), "cyclomatic_complexity", 1)
        nd == Get(Get(s, "complexity_analysis", << >>), "nesting_depth", 0)
        q == Get(s, "quality_indicators", << >>)
        Least(x, y) == IF x < y THEN x ELSE y
    IN  100
        - Deduction(Get(s, "issues", << >>), "severity", "info",
                    ("error" :> 15) @@ ("warning" :> 8), 3)
        - (IF cc > 10 THEN Least(20, (cc - 10) * 2) ELSE 0)
        - (IF nd > 5 THEN Least(15, (nd - 5) * 3) ELSE 0)
        + (IF Get(q, "has_error_handling", FALSE) THEN 5 ELSE 0)
        + (IF Get(q, "has_docstrings", FALSE) \/ Get(q, "documentation_ratio", 0) > 10
              THEN 5 ELSE 0)
        - Deduction(Get(a, "issues", << >>), "severity", "info",
                    ("error" :> 12) @@ ("warning" :> 6), 2)
        - Deduction(Get(a, "improvements", << >>), "priority", "low",
                    ("high" :> 8) @@ ("medium" :> 4), 2)
        - Deduction(Get(a, "security_concerns", << >>), "severity", "medium",
                    ("critical" :> 25) @@ ("high" :> 15) @@ ("medium" :> 8), 4)

\* int((base_score * 0.7) + (ai_score * 0.3)): the sum is truncated towards
\* zero.  0.7 and 0.3 are binary floating-point numbers, so a sum whose exact
\* value is an integer may come out just short of it and lose one.
FinalScores(base, ai) ==
    LET n == 7 * base + 3 * ai
        q == IF n >= 0 THEN n \div 10 ELSE -((-n) \div 10)
    IN  IF n % 10 = 0 /\ q # 0 THEN {q, IF q > 0 THEN q - 1 ELSE q + 1} ELSE {q}

\* A return statement without the clamp.
ClampNone(x) == x

\* max(0, min(100, final_score))
Clamp(x) == IF x < 0 THEN 0 ELSE IF x > 100 THEN 100 ELSE x

\* severity=issue.get("severity", "info"), unchecked.
SeverityOf(issue) == Get(issue, "severity", "info")

\* combine_enhanced_issues, lines 445-462: the AnalysisIssue made of each
\* static issue and of each AI issue, in that order; combine_issues passes
\* no improvements, security concerns or performance notes.
CombineIssues(static_issues, ai_issues) ==
    [i \in 1..Len(static_issues) |->
        [title |-> Get(static_issues[i], "title", "Static Analysis Issue"),
         severity |-> SeverityOf(static_issues[i]), source |-> "static"]]
    \o [i \in 1..Len(ai_issues) |->
        [title |-> Get(ai_issues[i], "title", "AI Detected Issue"),
         severity |-> SeverityOf(ai_issues[i]), source |-> "ai"]]

\* static_results, ai_results = await asyncio.gather(static_task, ai_task)
Gather ==
    /\ pc = "idle"
    /\ results' \in StaticResults
    /\ remote' \in AiResults
    /\ pc' = "gathered"
    /\ UNCHANGED <<code, language, platform, disk, temp_file, exe_file, temp_dir,
                   procs, result, lint>>
    /\ UNCHANGED history
    /\ UNCHANGED service_vars

\* overall_score = calculate_overall_score(static_results, ai_results)
CalculateOverallScore ==
    /\ pc = "gathered"
    /\ \E f \in FinalScores(BaseScore(results, remote), Get(remote, "score", 80)) :
          result' = Returned(Clamp(f))
    /\ pc' = "scored"
    /\ UNCHANGED <<code, language, platform, disk, temp_file, exe_file, temp_dir,
                   procs, remote, results, lint>>
    /\ UNCHANGED history
    /\ UNCHANGED service_vars

\* combined_issues = combine_issues(static_results.get("issues", []),
\*                                  ai_results.get("issues", []))
CombineStep ==
    /\ pc = "scored"
    /\ result' = Returned(CombineIssues(Get(results, "issues", << >>),
                                        Get(remote, "issues", << >>)))
    /\ pc' = "combined"
    /\ UNCHANGED <<code, language, platform, disk, temp_file, exe_file, temp_dir,
                   procs, remote, results, lint>>
    /\ UNCHANGED history
    /\ UNCHANGED service_vars

\* ----------------------------------------------------------- specification

Next ==
    \/ Call
    \/ Execute
    \/ InterpWrite
    \/ InterpThread
    \/ InterpSpawn
    \/ InterpExit
    \/ InterpTimeout
    \/ JavaStart
    \/ JavaThread
    \/ JavaCompileSpawn
    \/ JavaCompileExit
    \/ JavaRunSpawn
    \/ JavaRunExit
    \/ JavaRunTimeout
    \/ JavaOnline
    \/ CppWrite
    \/ CppThread
    \/ CppCompileSpawn
    \/ CppCompileExit
    \/ CppRunSpawn
    \/ CppRunExit
    \/ CppRunTimeout

Spec == Init /\ [][Next]_vars

\* The steps that are taken once they can be: those of the coroutine and of
\* the helper threads (subprocess.run with its timeout), the answer of the
\* remote service (the POST has a timeout), and the timeouts of
\* asyncio.wait_for.  That a child process exits on its own is not among
\* them: a child may run for ever.
Scheduled ==
    \/ Call
    \/ Execute
    \/ InterpWrite
    \/ InterpThread
    \/ InterpSpawn
    \/ InterpTimeout
    \/ JavaStart
    \/ JavaThread
    \/ JavaCompileSpawn
    \/ JavaRunSpawn
    \/ JavaRunTimeout
    \/ JavaOnline
    \/ CppWrite
    \/ CppThread
    \/ CppCompileSpawn
    \/ CppRunSpawn
    \/ CppRunTimeout

SpecLive == Init /\ [][Next]_vars /\ WF_vars(Scheduled)

\* One analyze() call.
NextAnalyze ==
    \/ AnalyzeCall
    \/ Analyze
    \/ AnalyzePython
    \/ RunPylint
    \/ AnalyzeJavascript
    \/ AnalyzeJava
    \/ AnalyzeCpp
    \/ AnalyzeGeneric

SpecAnalyze == Init /\ [][NextAnalyze]_vars

\* The scoring and the merge of one analysis.
NextApi ==
    \/ Gather
    \/ CalculateOverallScore
    \/ CombineStep

SpecApi == Init /\ [][NextApi]_vars

\* The tree passes of one python analysis.
NextPython ==
    \/ ParseTree
    \/ MetricsPass
    \/ ComplexityPass
    \/ SyntaxPass
    \/ BugPass

SpecPython == Init /\ [][NextPython]_vars

\* Calls of analyze(), one after another, on one StaticAnalyzer.
NextRepeat ==
    \/ NextAnalyze
    \/ AnalyzeReturn

SpecRepeat == Init /\ [][NextRepeat]_vars

\* One analysis of a C/C++ or JavaScript source by text scans.
NextScan ==
    \/ ScanCall
    \/ ScanCpp
    \/ ScanJavascript

SpecScan == Init /\ [][NextScan]_vars

\* Calls of RateLimiter.is_allowed as time passes.
NextLimiter ==
    \/ Tick
    \/ \E client_id \in Clients : IsAllowed(client_id)

SpecLimiter == InitLimiter /\ [][NextLimiter]_vars

\* Calls of AnalysisCache.set, get and clear as time passes.
NextCache ==
    \/ CacheTick
    \/ \E p \in CacheInputs, r \in CacheResults : CacheSet(p[1], p[2], r)
    \/ \E p \in CacheInputs : CacheGet(p[1], p[2])
    \/ CacheClear

SpecCache == InitCache /\ [][NextCache]_vars

\* Requests to the analyze endpoint as time passes.
NextEndpoint ==
    \/ Tick
    \/ \E client_ip \in Callers, c \in RequestCodes, l \in RequestLanguages, execute \in BOOLEAN :
          AnalyzeCode(client_ip, c, l, execute)
    \/ RunExecutor
    \/ RunAnalyzers

SpecEndpoint == InitEndpoint /\ [][NextEndpoint]_vars

\* execute() calls in flight at once, each at its own pace.
NextConcurrent ==
    \/ \E c \in Calls : ExecuteCreate(c)
    \/ \E c \in Calls : ExecuteCompile(c)
    \/ \E c \in Calls : ExecuteRun(c)
    \/ \E c \in Calls : ExecuteCleanUp(c)

SpecConcurrent == InitConcurrent /\ [][NextConcurrent]_vars

\* ------------------------------------------------------------ properties

Fields == {"output", "error", "execution_time", "success"}

\* execute() has returned a result.
Returns == pc = "done" /\ result.kind = "returned"

\* The commands that run the submitted program, and the compilers.
Programs == {"python", "node", "java", "exe"}
Compilers == {"javac", "g++"}

\* C1: whatever the code, the language and the failures of the child
\* processes, execute() ends by returning a result with the four fields
\* output, error, execution_time and success; it never raises.
C1_ExecuteNeverRaises ==
    pc = "done" =>
        /\ result.kind = "returned"
        /\ DOMAIN result.value = Fields
        /\ result.value.success \in BOOLEAN

\* C1, reached: a Python call whose source cannot be written (an unexpected
\* exception) has returned a result.
C1_Witness ==
    /\ Returns
    /\ language = "python"
    /\ ~Encodable(code)
    /\ ~result.value.success

\* The four keys of the bundle analyze() returns.
BundleKeys == {"issues", "metrics", "quality_indicators", "complexity_analysis"}

\* C2: whatever the code and the language, and whatever fails inside an
\* analysis, analyze() ends by returning a bundle with the four keys issues,
\* metrics, quality_indicators and complexity_analysis; it never raises.
\* When pylint is not installed or does not finish in time, the bundle is
\* returned all the same, with the issues found before the pylint run and
\* none from pylint.
C2_AnalyzeNeverRaises ==
    pc = "analyzed" =>
        /\ result.kind = "returned"
        /\ DOMAIN result.value = BundleKeys
        /\ lint \in {"absent", "timeout"} => result.value.issues = results.issues

\* C2, reached: a Python analysis whose pylint run timed out has returned
\* its bundle.
C2_Witness ==
    /\ pc = "analyzed"
    /\ language = "python"
    /\ lint = "timeout"
    /\ result.kind = "returned"
    /\ result.value.metrics # {}

\* The process (or remote run) whose exit decides success ended with status
\* 0 and wrote no text to stderr (bytes that decode to no character are no
\* text).
CleanExit ==
    IF remote # << >>
        THEN remote[Len(remote)].run.code = 0 /\ remote[Len(remote)].run.stderr = Empty
        ELSE /\ procs # << >>
             /\ procs[Len(procs)].st = "exited"
             /\ procs[Len(procs)].rc = 0
             /\ Decode(procs[Len(procs)].err) = Empty

\* C3 (as claimed): success is true only when the process exited with
\* status 0 and produced no stderr content, so a successful result has an
\* empty error field, on every path including the remote Java fallback.
C3_SuccessMeansCleanExit ==
    (Returns /\ result.value.success) => (CleanExit /\ result.value.error = Empty)

\* C4 (as claimed): once execute() has returned, none of the temporary
\* files or directories the call created is left on disk.
C4_NoTempFilesLeft == pc = "done" => disk = {}

\* What C5 says of a call whose program ran past the timeout, but for the
\* execution time: the child is killed, the call fails with empty output
\* and the timeout message.
TimedOutReport(i) ==
    /\ procs[i].st = "killed"
    /\ result.kind = "returned"
    /\ ~result.value.success
    /\ result.value.output = Empty
    /\ result.value.error = TimeoutMsg
    /\ TextLen(result.value.error) > 0

ProgramTimedOut(i) == pc = "done" /\ procs[i].cmd \in Programs /\ procs[i].late

\* C5 (as claimed): when the program runs longer than the timeout, the
\* child is killed and the result is success=false, empty output, the
\* timeout message, and execution_time equal to the configured timeout, in
\* every language family and on every branch.
C5_TimeoutExactTime ==
    \A i \in 1..Len(procs) :
        ProgramTimedOut(i) =>
            (TimedOutReport(i) /\ result.value.execution_time = TimeoutUs)

\* C5 (amended): when the program runs longer than the timeout, the child is
\* killed and the result is success=false, empty output and the timeout
\* message, in every language family; execution_time is the configured
\* timeout on the asyncio branch, and on the thread-pool branch the measured
\* time rounded to milliseconds, which is at least the configured timeout.
C5_Timeout ==
    \A i \in 1..Len(procs) :
        ProgramTimedOut(i) =>
            /\ TimedOutReport(i)
            /\ platform # "Windows" => result.value.execution_time = TimeoutUs
            /\ platform = "Windows" =>
                 /\ result.value.execution_time >= TimeoutUs
                 /\ result.value.execution_time % 1000 = 0

\* C5, reached: on the thread-pool branch a compiled C++ program has been
\* killed at the timeout and the call has returned, reporting a time above
\* the timeout.
C5_Witness ==
    /\ Returns
    /\ platform = "Windows"
    /\ procs # << >>
    /\ procs[Len(procs)].cmd = "exe"
    /\ procs[Len(procs)].late
    /\ result.value.execution_time > TimeoutUs

\* C6 (as claimed): in every result both output and error are at most
\* max_output_length characters long.
C6_OutputAndErrorCapped ==
    Returns =>
        /\ TextLen(result.value.output) <= max_output_length
        /\ TextLen(result.value.error) <= max_output_length

CompileFailedAt(i) ==
    procs[i].cmd \in Compilers /\ procs[i].st = "exited" /\ procs[i].rc # 0

\* C7: when the compiler of a compiled language exits non-zero, the program
\* is never started, and execute() returns success=false, an empty output
\* and an error that holds the compiler's diagnostics (its decoded stderr,
\* up to the whitespace at its ends) under the heading "Compilation error:".
C7_CompileError ==
    \A i \in 1..Len(procs) :
        CompileFailedAt(i) =>
            /\ \A j \in 1..Len(procs) : procs[j].cmd \notin Programs
            /\ pc = "done"
            /\ result.kind = "returned"
            /\ ~result.value.success
            /\ result.value.output = Empty
            /\ Contains(result.value.error, <<Lit("Compilation error:")>>)
            /\ Contains(result.value.error, Strip(Decode(procs[i].err)))

\* C7, reached: g++ has failed with diagnostics that end in a newline.
C7_Witness ==
    /\ Returns
    /\ procs # << >>
    /\ procs[1].cmd = "g++"
    /\ CompileFailedAt(1)
    /\ procs[1].err = <<Run("vis", max_output_length), Run("ws", 1)>>

\* C8: for a language outside python, javascript, typescript, java, cpp and
\* c, execute() starts no process, creates no temporary file, contacts no
\* remote service, and returns success=false, an empty output, an error
\* that names the language, and execution_time 0.
C8_UnsupportedLanguage ==
    language \notin {"", "python", "javascript", "typescript", "java", "cpp", "c"} =>
        /\ procs = << >>
        /\ disk = {}
        /\ remote = << >>
        /\ pc \in {"execute", "done"}
        /\ pc = "done" =>
             result = Returned(Result(Empty,
                          <<Lit("Code execution not supported for "), Lit(language)>>,
                          0, FALSE))

\* C8, reached: a call for "go" has returned.
C8_Witness == Returns /\ language = "go" /\ TextLen(result.value.error) > 0

\* C9: for java, when the source has no public class declaration, execute()
\* creates no temporary directory or file, starts no process, does not
\* contact the remote service, and returns success=false with the error
\* "No public class found in Java code".
C9_JavaNoPublicClass ==
    (language = "java" /\ Matches(code) = {}) =>
        /\ temp_dir = None
        /\ disk = {}
        /\ procs = << >>
        /\ remote = << >>
        /\ pc \in {"execute", "java", "done"}
        /\ pc = "done" =>
             result = Returned(Result(Empty,
                          <<Lit("No public class found in Java code")>>, 0, FALSE))

\* C9, reached: "public class" run into the name (no whitespace between
\* them) is no declaration, and the call has returned.
C9_Witness ==
    /\ Returns
    /\ language = "java"
    /\ code = <<"public", " ", "class", "id">>

JavaToolMissing == \E i \in 1..Len(procs) : procs[i].cmd \in {"javac", "java"} /\ procs[i].st = "notfound"

\* C10 (as claimed): for java, when the toolchain executable is not found,
\* execute() falls back to the remote service on every platform branch, and
\* when the remote call fails too it returns success=false with an
\* "unavailable" error.
C10_JavaFallback ==
    (pc = "done" /\ JavaToolMissing) =>
        /\ remote # << >>
        /\ result.kind = "returned"
        /\ remote[1].status # 200 =>
             /\ ~result.value.success
             /\ \/ Contains(result.value.error, <<Lit("Java execution unavailable:")>>)
                \/ Contains(result.value.error,
                            <<Lit("Online Java compiler unavailable. Please try again.")>>)

\* The severities of AnalysisIssue (models.py).
Severities == {"error", "warning", "info"}

\* C11 (as claimed): every issue of the merged list has one of the three
\* severities error, warning and info; a missing severity and any value
\* outside the three are turned into "info" before the merge.
C11_MergedSeverities ==
    pc = "combined" =>
        \A i \in 1..Len(result.value) : result.value[i].severity \in Severities

C12_PythonSyntaxError ==
    (pc = "analyzed" /\ language = "python" /\ AstParse(code) = "SyntaxError") =>
        /\ result.kind = "returned"
        /\ Len(result.value.issues) = 1
        /\ result.value.issues[1].severity = "error"
        /\ "line_number" \in DOMAIN result.value.issues[1]
        /\ result.value.issues[1].line_number = ErrorLine
        /\ result.value.metrics = {}
        /\ result.value.quality_indicators = {}
        /\ result.value.complexity_analysis = {}
        /\ lint = "none"
        /\ disk = {}

\* C12, reached: the analysis of "public class id" as python has returned.
C12_Witness ==
    /\ pc = "analyzed"
    /\ language = "python"
    /\ code = <<"public", " ", "class", " ", "id">>
    /\ result.kind = "returned"
    /\ result.value.issues[1].title = "Syntax Error"

\* An exception was caught: the result holds the issue the handlers write.
ExceptionReported ==
    /\ pc = "analyzed"
    /\ result.kind = "returned"
    /\ \E i \in 1..Len(result.value.issues) : result.value.issues[i].title = "Analysis Error"

\* C13 (as claimed): an internal exception other than a syntax error,
\* raised in the parser, a metric pass or an issue check of any language,
\* ends in a result whose issues are a single issue of severity error, with
\* a degraded bundle: no quality indicators, no complexity analysis and no
\* metric beyond the line counts and the zero-valued counters.
C13_ExceptionIsOneError ==
    ExceptionReported =>
        /\ Len(result.value.issues) = 1
        /\ result.value.issues[1].severity = "error"
        /\ result.value.metrics \subseteq ErrorResult.metrics
        /\ result.value.quality_indicators = {}
        /\ result.value.complexity_analysis = {}

\* C15 (as claimed, for the texts of Codes, none of which has a branching
\* construct): in every bundle of an analysis that completed, for every
\* language, complexity_analysis has the key cyclomatic_complexity.
C15_ComplexityPresent ==
    (pc = "analyzed" /\ result.kind = "returned" /\ ~ExceptionReported
        /\ ~(language = "python" /\ AstParse(code) # "Module")) =>
        "cyclomatic_complexity" \in result.value.complexity_analysis

\* C20 (as claimed): in every result execute() returns, on every path
\* including the compile-error path, output and error have no leading or
\* trailing whitespace.
C20_EdgesTrimmed ==
    Returns =>
        /\ Strip(result.value.output) = result.value.output
        /\ Strip(result.value.error) = result.value.error

\* The nesting of a tree as the source writes it: the number of nested
\* blocks around the innermost statement, an `elif` branch being at the
\* level of its `if`.
RECURSIVE SourceDepth(_, _)
SourceDepth(node, level) ==
    LET inside == IF node.type \in {"If", "For", "While", "With", "Try"} /\ ~node.elif
                      THEN level + 1 ELSE level
        depths == {inside} \cup {SourceDepth(node.kids[i], inside) : i \in 1..Len(node.kids)}
    IN  CHOOSE m \in depths : \A x \in depths : x <= m

\* The tree has no nesting construct but conditionals.
OnlyConditionals(tree) ==
    \A i \in 1..Len(WalkAll(<<tree>>)) :
        WalkAll(<<tree>>)[i].type \notin {"For", "While", "With", "Try", "FunctionDef",
                                          "AsyncFunctionDef"}

\* C16 (as claimed, for python): a snippet whose deepest nesting is three
\* levels of nested conditional blocks, and which has no other nesting
\* construct, yields nesting_depth = 3.
C16_ThreeLevels ==
    (pc = "measured" /\ OnlyConditionals(code) /\ SourceDepth(code, 0) = 3) =>
        results.complexity_analysis.nesting_depth = 3

\* The function definition of a module that is one.
TheDef == code.kids[1]

\* The list literals among the defaults of the function definition.
ListDefaults ==
    Len(SelectSeq(TheDef.defaults \o TheDef.kw_defaults, LAMBDA d : d = "List"))

\* C17 (as claimed): a function definition with a list literal as a default
\* parameter value produces exactly one issue of severity warning, titled
\* Mutable Default Argument and naming the function; a function without a
\* list, dict or set literal default produces none.
C17_MutableDefault ==
    (pc = "checked" /\ TheDef.name = "f") =>
        /\ ListDefaults = 1 =>
              /\ Len(results.issues) = 1
              /\ results.issues[1].title = "Mutable Default Argument"
              /\ results.issues[1].severity = "warning"
              /\ results.issues[1].function = "f"
        /\ ListDefaults = 0 => results.issues = << >>

\* The call returned a bundle no exception cut short.
Undisturbed(r) ==
    /\ r.kind = "returned"
    /\ \A i \in 1..Len(r.value.issues) : r.value.issues[i].title # "Analysis Error"

\* The call that has just ended has the input of the reference call.
SameInputAgain ==
    /\ pc = "analyzed"
    /\ history.first # NoResult
    /\ history.first.code = code
    /\ history.first.language = language
    /\ Undisturbed(history.first.result)
    /\ Undisturbed(result)

InFlight == {c \in Calls : pc[c] \in {"compile", "run", "cleanup"}}

\* C19: in every interleaving of concurrent execute() calls, the temporary
\* files and directories of distinct calls in flight are distinct, every
\* file a call reads, overwrites or deletes is one it wrote itself, and
\* the program a call ran is the code it was given.
C19_ArtifactsApart ==
    /\ \A c \in InFlight, d \in InFlight :
          c # d => Artifacts(disk, c) \cap Artifacts(disk, d) = {}
    /\ \A a \in procs : a.by = a.call
    /\ \A c \in Calls :
          (pc[c] \in {"cleanup", "done"} /\ result[c].value # <<"Compilation error">>)
              => result[c].value = code[c]

\* Two C++ calls with different programs overlap: the first has run its
\* program while the second has compiled and is about to run.
C19_Witness ==
    /\ pc[1] = "cleanup"
    /\ pc[2] = "run"
    /\ language[1] = "cpp"
    /\ language[2] = "cpp"
    /\ code[1] # code[2]
    /\ result[1] = Returned(code[1])
    /\ {temp_file[1], exe_file[1], temp_file[2], exe_file[2]} \subseteq PathsOn(disk)
    /\ [call |-> 2, op |-> "write", by |-> 2] \in procs

\* C30 (as claimed): after an analyze() call on python code has returned,
\* the temporary file written for pylint does not exist, however the
\* pylint run went.
C30_LintFileRemoved ==
    (pc = "analyzed" /\ language = "python" /\ lint # "none") => LintFile \notin disk

\* C29 (as claimed): whenever execute() returns success = false, the error
\* field is not empty.
C29_FailureExplained ==
    (Returns /\ ~result.value.success) => result.value.error # Empty

\* C24 (as claimed): every execute() call eventually returns, whatever its
\* child processes do.
C24_EventuallyReturns == (pc # "idle") ~> (pc = "done")

\* How often the token t occurs in the source.
Tokens(t) == Cardinality({i \in 1..Len(code) : code[i] = t /\ BoundedAt(code, i)})

\* C21 (as claimed): for C and C++ the potential memory-leak warning is
\* reported exactly when the source has more `new` tokens than `delete`
\* tokens.
C21_LeakByTokenCount ==
    (pc = "scanned" /\ language = "cpp") =>
        ((\E i \in 1..Len(result.value.issues) :
              result.value.issues[i].title = "Potential memory leak")
            <=> Tokens("new") > Tokens("delete"))

\* The source without its spaces.
Unspaced == SelectSeq(code, LAMBDA x : x # " ")

\* The source is one condition: operands joined by `&&`, spaced or not.
Conjunction ==
    /\ Len(Unspaced) % 2 = 1
    /\ \A i \in 1..Len(Unspaced) : Unspaced[i] = IF i % 2 = 1 THEN "a" ELSE "&&"

\* C23 (as claimed, for javascript): a source that is a single condition
\* with no other construct has cyclomatic complexity 1 plus one for each
\* operand beyond the first.
C23_JsComplexity ==
    (pc = "scanned" /\ language = "javascript" /\ Conjunction) =>
        result.value.complexity_analysis.cyclomatic_complexity
            = 1 + (Len(Unspaced) - 1) \div 2

\* The name an alias binds: its asname, or else its name up to the first
\* dot.
Bound(alias) ==
    IF alias.asname # "None" THEN alias.asname
    ELSE IF alias.name = "a.b" THEN "a"
    ELSE alias.name

\* The imported names no Name of the tree refers to, by the name they bind.
NeverReferenced ==
    LET nodes == WalkAll(<<code>>)
        aliases == Flatten([i \in 1..Len(nodes) |->
                       IF nodes[i].type \in {"Import", "ImportFrom"}
                           THEN nodes[i].names ELSE << >>])
        ids == {nodes[i].id : i \in {k \in 1..Len(nodes) : nodes[k].type = "Name"}}
        unused == SelectSeq(aliases, LAMBDA al : Bound(al) \notin ids)
    IN  [i \in 1..Len(unused) |-> unused[i].name]

\* C22 (as claimed): the Unused Imports issue lists exactly the imported
\* names that are never referenced; there is no such issue when every
\* import is referenced by the name it binds.
C22_UnusedImports ==
    pc = "inspected" =>
        LET found == SelectSeq(results.issues, LAMBDA i : i.title = "Unused Imports")
        IN  IF NeverReferenced = << >> THEN found = << >>
            ELSE Len(found) = 1 /\ found[1].imports = NeverReferenced

\* The function definitions of the tree that are directly in a class body,
\* and all of them.
DefTypes == {"FunctionDef", "AsyncFunctionDef"}
InClassBody ==
    LET nodes == WalkAll(<<code>>)
        classes == SelectSeq(nodes, LAMBDA n : n.type = "ClassDef")
    IN  Len(Flatten([i \in 1..Len(classes) |->
                SelectSeq(classes[i].kids, LAMBDA k : k.type \in DefTypes)]))
AllDefs == Len(SelectSeq(WalkAll(<<code>>), LAMBDA n : n.type \in DefTypes))

\* C28 (as claimed): metrics.methods counts the functions defined directly
\* in a class body and metrics.functions the others, so the two add up to
\* the number of function definitions.
C28_MethodsAndFunctions ==
    pc = "counted" =>
        /\ results.metrics.methods = InClassBody
        /\ results.metrics.functions = AllDefs - InClassBody

\* For python the cyclomatic complexity is 1, plus one for each if and
\* loop, plus one for each operand beyond the first of each boolean
\* expression.
PythonComplexityAsSpecified ==
    pc = "measured" =>
        LET nodes == WalkAll(<<code>>)
            bools == SelectSeq(nodes, LAMBDA n : n.type = "BoolOp")
            operands == Len(Flatten([i \in 1..Len(bools) |-> Tail(bools[i].kids)]))
        IN  results.complexity_analysis.cyclomatic_complexity
                = 1 + Len(SelectSeq(nodes, LAMBDA n : n.type \in {"If", "For"}))
                    + operands - Len(bools)

\* The calls of the client let through in the sixty seconds from s on.
GrantedFrom(c, s) ==
    {i \in 1..Len(trace.granted[c]) :
        s <= trace.granted[c][i] /\ trace.granted[c][i] < s + Minute}

\* C25: at most requests_per_minute calls of a client are allowed in any
\* sixty seconds; a denied call returns (False, 0) and records no
\* timestamp; an allowed call returns a remaining count that is not
\* negative; and a call leaves what is kept of every other client as it was.
C25_RateLimited ==
    /\ \A c \in Clients, s \in 0..MaxTime :
          Cardinality(GrantedFrom(c, s)) <= requests_per_minute
    /\ trace.last # NoResult =>
          LET c == trace.last.client
              before == trace.last.before
          IN  /\ ~result.value[1] =>
                    /\ result.value[2] = 0
                    /\ requests[c] = Recent(before[c], trace.last.at)
              /\ result.value[1] =>
                    /\ result.value[2] >= 0
                    /\ requests[c] = Append(Recent(before[c], trace.last.at), trace.last.at)
              /\ \A d \in Clients \ {c} : requests[d] = before[d]

\* A client that used up its requests, waited and was let through again is
\* denied once more, while another client has been let through.
C25_Witness ==
    /\ trace.last # NoResult
    /\ result = Returned(<<FALSE, 0>>)
    /\ Len(trace.granted[trace.last.client]) = 2 * requests_per_minute
    /\ \E d \in Clients \ {trace.last.client} : trace.granted[d] # << >>

\* What C26 says of the last get: a result is returned only if it is that
\* of the latest set for the same code and language, made less than ttl
\* before; and an expired entry the get found is no longer in the cache.
GetIsLastSet ==
    LET got == trace.got
    IN  /\ result.value # "None" =>
              /\ got.last # NoResult
              /\ result.value = got.last.result
              /\ got.at - got.last.at < ttl
        /\ got.expired => ~got.left

CacheSoundForLanguageNames ==
    (trace.got # NoResult
        /\ \A p \in DOMAIN trace.last_set \cup {<<trace.got.code, trace.got.language>>} :
               p[2] = <<"c">>)
      => GetIsLastSet

\* C27: in the analyze endpoint a request with execute=true neither reads
\* nor writes the cache and its response is not built from a cache entry;
\* when it is answered with an analysis, the executor and the analyzers
\* have run for it; and no cache entry holds an execution result.
C27_ExecuteBypassesCache ==
    /\ trace.execute => /\ trace.did \cap {"get", "set"} = {}
                        /\ ~trace.cached
    /\ (trace.execute /\ pc = "idle" /\ result.kind = "returned" /\ result.value.status = 200)
          => /\ {"execute", "analyze"} \subseteq trace.did
             /\ result.value.execution \in ExecData
    /\ \A k \in DOMAIN cache : "execution" \notin DOMAIN cache[k].result

\* An executed request has been answered while the cache holds the entry
\* of an earlier execute=false request for the same code and language.
C27_Witness ==
    /\ trace.execute
    /\ pc = "idle"
    /\ result.kind = "returned"
    /\ result.value.status = 200
    /\ CacheKey(code, <<language>>) \in DOMAIN cache
    /\ now - cache[CacheKey(code, <<language>>)].timestamp < ttl

====
